---- MODULE Spec2Model ----
(***************************************************************************)
(* A model of the custom B+ tree store of the approximate query engine     *)
(* (src/src/aqe_backend/core/custom_bplus_db.{hpp,cpp}): the tree and its  *)
(* inserts, the cached record vector, snapshot save/load, the sampling     *)
(* library and the multithreaded controllers.                              *)
(*                                                                         *)
(* The CustomBPlusDB object is the record `db` of its fields; the heap of  *)
(* BPlusTreeNode objects is the sequence db.nodes; a node's address is its *)
(* index, NULL is the null shared_ptr.  C++ vectors are                    *)
(* 0-based, TLA+ sequences 1-based: vector element v[i] is v[i + 1] here.  *)
(*                                                                         *)
(* Two program constants are scaled down so that the cases the code        *)
(* distinguishes on them are reachable by exhaustive search: MAX_KEYS      *)
(* (255 in the source, odd, so that a leaf splits mid / mid + 1 and an     *)
(* internal node mid / mid) and REFRESH_INTERVAL (1000 in the source,      *)
(* greater than MAX_KEYS, so that the root can split before the first      *)
(* refresh of the cache).                                                  *)
(***************************************************************************)
EXTENDS Integers, Sequences, FiniteSets, TLC

\* BPlusTreeNode::MAX_KEYS (255 in the source; scaled, see above).
MAX_KEYS == 3

\* The period of the cache refresh in insert_record (1000 in the source; scaled).
REFRESH_INTERVAL == 4

\* The null shared_ptr<BPlusTreeNode>.
NULL == 0

\* Bound: record ids are drawn from 1..MaxId.
MaxId == 6

Ids == 1..MaxId

\* The amount of the record with a given id (Record::amount).
AmountOf(i) == 10 * ((i % 2) + 1)

\* struct Record, reduced to the two fields the store and the aggregates read.
MkRecord(i) == [id |-> i, amount |-> AmountOf(i)]

Records == {MkRecord(i) : i \in Ids}

VARIABLES
    db,               \* the CustomBPlusDB object: a record of its fields (see FreshDB)
    ret,              \* the last call on the store and what it returned
    inserted,         \* the records handed to insert_record since the tree was last emptied
    file,             \* the snapshot file save_to_file writes and load_from_file reads
    saved_leaf,       \* the leaf sequence of the store at its last save_to_file
    fresh,            \* a second store, constructed to load the snapshot into
    fresh_ret,        \* how load_from_file on the second store ended
    part,             \* the worker regions a multithreaded sampler last computed
    agg,              \* the running call of fast_aggregated_memory_stride_sum
    clt,              \* the running call of clt_validated_dual_pointer_sample
    readers,          \* the caller threads that hold db_mutex shared
    call,             \* per caller thread, the sampler call it is running
    grp,              \* the running call of execute_query_groupby
    sched,            \* the CustomApproximateScheduler object in front of the store
    sig               \* the running call of signal_based_clt_sample

treeVars == <<db, ret, inserted>>

snapVars == <<file, saved_leaf, fresh, fresh_ret>>

partVars == <<part>>

aggVars == <<agg>>

raceVars == <<readers, call>>

cltVars == <<clt>>

grpVars == <<grp>>

schedVars == <<sched>>

sigVars == <<sig>>

\* What the actions of the tree store and of the sampling library leave alone.
otherThanTree == <<snapVars, partVars, aggVars, raceVars, cltVars, grpVars, schedVars, sigVars>>

\* What the actions of the snapshot specification leave alone.
otherThanSnap == <<partVars, aggVars, raceVars, cltVars, grpVars, schedVars, sigVars>>

\* What the actions of the partition specification leave alone.
otherThanPart == <<treeVars, snapVars, aggVars, raceVars, cltVars, grpVars, schedVars, sigVars>>

\* What the actions of the aggregation specification leave alone.
otherThanAgg == <<snapVars, partVars, raceVars, cltVars, grpVars, schedVars, sigVars>>

\* What the actions of the concurrent-readers specification leave alone.
otherThanRace == <<snapVars, partVars, aggVars, cltVars, grpVars, schedVars, sigVars>>

\* What the actions of the CLT controller specification leave alone.
otherThanClt == <<snapVars, partVars, aggVars, raceVars, grpVars, schedVars, sigVars>>

\* What the actions of the GROUP BY specification leave alone.
otherThanGrp == <<treeVars, snapVars, partVars, aggVars, raceVars, cltVars, schedVars, sigVars>>

\* What the actions of the close specification leave alone.
otherThanClose == <<inserted, saved_leaf, fresh, fresh_ret, partVars, aggVars, raceVars, cltVars, grpVars, sigVars>>

vars == <<treeVars, snapVars, partVars, aggVars, raceVars, cltVars, grpVars, schedVars, sigVars>>

----------------------------------------------------------------------------
(* Sequence helpers *)

\* std::vector::insert(begin() + i, x), i 0-based.
InsertAt(s, i, x) == SubSeq(s, 1, i) \o <<x>> \o SubSeq(s, i + 1, Len(s))

Min(a, b) == IF a < b THEN a ELSE b

Max(a, b) == IF a > b THEN a ELSE b

RECURSIVE SumSeq(_)
SumSeq(s) == IF s = <<>> THEN 0 ELSE Head(s) + SumSeq(Tail(s))

RECURSIVE Flatten(_)
Flatten(ss) == IF ss = <<>> THEN <<>> ELSE Head(ss) \o Flatten(Tail(ss))

\* The set of the elements of a sequence.
Range(s) == {s[k] : k \in 1..Len(s)}

----------------------------------------------------------------------------
(* BPlusTreeNode *)

\* BPlusTreeNode::BPlusTreeNode(bool leaf)
NewNode(leaf) ==
    [is_leaf |-> leaf, key_count |-> 0, subtree_record_count |-> 0,
     keys |-> <<>>, records |-> <<>>, children |-> <<>>, next_leaf |-> NULL]

\* std::lower_bound(keys.begin(), keys.begin() + key_count, id) - keys.begin()
LowerBound(keys, n, id) ==
    CHOOSE i \in 0..n :
        /\ \A j \in 1..i : keys[j] < id
        /\ (i = n \/ keys[i + 1] >= id)

\* The insertion of BPlusTreeNode::insert_record at the position found.
LeafInsertAt(n, index, rec) ==
    [n EXCEPT !.keys = InsertAt(@, index, rec.id),
              !.records = InsertAt(@, index, rec),
              !.key_count = @ + 1,
              !.subtree_record_count = @ + 1]

\* BPlusTreeNode::insert_record: only a leaf takes the record.
NodeInsertRecord(n, rec) ==
    IF n.is_leaf
    THEN LeafInsertAt(n, LowerBound(n.keys, n.key_count, rec.id), rec)
    ELSE n

\* int mid = MAX_KEYS / 2
Mid == MAX_KEYS \div 2

\* A split whose new leaf starts one past mid, as the new internal node does:
\* the record at mid is in neither half.
SplitDropsMid(n) ==
    [NewNode(n.is_leaf) EXCEPT
        !.keys = SubSeq(n.keys, Mid + 2, n.key_count),
        !.records = IF n.is_leaf THEN SubSeq(n.records, Mid + 2, n.key_count) ELSE <<>>,
        !.children = IF n.is_leaf THEN <<>> ELSE SubSeq(n.children, Mid + 2, n.key_count + 1),
        !.key_count = n.key_count - Mid - 1,
        !.next_leaf = n.next_leaf]

\* The node BPlusTreeNode::split creates from node n: the upper half of a leaf,
\* linked to n's successor; the keys and children after keys[mid] of an internal node.
SplitNewNode(n) ==
    IF n.is_leaf
    THEN [NewNode(TRUE) EXCEPT
            !.keys = SubSeq(n.keys, Mid + 1, n.key_count),
            !.records = SubSeq(n.records, Mid + 1, n.key_count),
            !.key_count = n.key_count - Mid,
            !.next_leaf = n.next_leaf]
    ELSE [NewNode(FALSE) EXCEPT
            !.keys = SubSeq(n.keys, Mid + 2, n.key_count),
            !.children = SubSeq(n.children, Mid + 2, n.key_count + 1),
            !.key_count = n.key_count - Mid - 1]

\* A split that sets key_count of node n without resizing its vectors.
SplitKeepsVectors(n, new_id) ==
    IF n.is_leaf THEN [n EXCEPT !.key_count = Mid, !.next_leaf = new_id]
    ELSE [n EXCEPT !.key_count = Mid]

\* What BPlusTreeNode::split leaves of node n, new_id being the new node's address.
SplitOldNode(n, new_id) ==
    IF n.is_leaf
    THEN [n EXCEPT !.keys = SubSeq(@, 1, Mid),
                   !.records = SubSeq(@, 1, Mid),
                   !.key_count = Mid,
                   !.next_leaf = new_id]
    ELSE [n EXCEPT !.keys = SubSeq(@, 1, Mid),
                   !.children = SubSeq(@, 1, Mid + 1),
                   !.key_count = Mid]

\* BPlusTreeNode::split on the node at address nid: the heap with the new node
\* appended, and the new node's address.
Split(heap, nid) ==
    [heap |-> Append([heap EXCEPT ![nid] = SplitOldNode(@, Len(heap) + 1)],
                     SplitNewNode(heap[nid])),
     new_node |-> Len(heap) + 1]

\* The child index chosen by the descent loop of insert_into_node:
\* while (i < key_count && id >= keys[i]) i++.
ChildIndex(n, id) ==
    CHOOSE i \in 0..n.key_count :
        /\ \A j \in 1..i : id >= n.keys[j]
        /\ (i = n.key_count \/ id < n.keys[i + 1])

\* return node->key_count >= MAX_KEYS, with the heap the insert produced.
FullAfter(heap, nid) == [heap |-> heap, split |-> heap[nid].key_count >= MAX_KEYS]

\* The handling of a child split in insert_into_node: s is what split() on
\* children[i] returned; the new node's first key and its address go into the parent.
PushSeparator(s, nid, i) ==
    FullAfter([s.heap EXCEPT
                 ![nid].keys = InsertAt(@, i, s.heap[s.new_node].keys[1]),
                 ![nid].children = InsertAt(@, i + 1, s.new_node),
                 ![nid].key_count = @ + 1],
              nid)

\* insert_into_node after the recursive call on children[i] returned r.
AfterChildInsert(r, nid, i) ==
    IF r.split
    THEN PushSeparator(Split(r.heap, r.heap[nid].children[i + 1]), nid, i)
    ELSE [heap |-> r.heap, split |-> FALSE]

\* CustomBPlusDB::insert_into_node: the heap after the insert, and whether the
\* node at nid is now full and must be split by its caller.
RECURSIVE InsertIntoNode(_, _, _)
InsertIntoNode(heap, nid, rec) ==
    IF heap[nid].is_leaf
    THEN FullAfter([heap EXCEPT ![nid] = NodeInsertRecord(@, rec)], nid)
    ELSE AfterChildInsert(
             InsertIntoNode(heap,
                            heap[nid].children[ChildIndex(heap[nid], rec.id) + 1], rec),
             nid, ChildIndex(heap[nid], rec.id))

\* BPlusTreeNode::get_all_records: the records of a subtree in child order.
RECURSIVE GetAllRecords(_, _)
GetAllRecords(heap, nid) ==
    IF heap[nid].is_leaf
    THEN SubSeq(heap[nid].records, 1, heap[nid].key_count)
    ELSE Flatten([c \in 1..(heap[nid].key_count + 1) |->
                    IF heap[nid].children[c] # NULL
                    THEN GetAllRecords(heap, heap[nid].children[c])
                    ELSE <<>>])

\* The descent of collect_leaf_records to the leftmost leaf.
RECURSIVE LeftmostLeaf(_, _)
LeftmostLeaf(heap, nid) ==
    IF ~heap[nid].is_leaf /\ heap[nid].children # <<>>
    THEN LeftmostLeaf(heap, heap[nid].children[1])
    ELSE nid

\* The walk of collect_leaf_records along next_leaf.
RECURSIVE ChainRecords(_, _)
ChainRecords(heap, nid) ==
    IF nid = NULL THEN <<>>
    ELSE SubSeq(heap[nid].records, 1, heap[nid].key_count)
            \o ChainRecords(heap, heap[nid].next_leaf)

\* CustomBPlusDB::collect_leaf_records
CollectLeafRecords(heap, r) ==
    IF r = NULL THEN <<>> ELSE ChainRecords(heap, LeftmostLeaf(heap, r))

\* CustomBPlusDB::collect_all_records
CollectAllRecords(heap, r) ==
    IF r = NULL THEN <<>> ELSE GetAllRecords(heap, r)

----------------------------------------------------------------------------
(* CustomBPlusDB, as a record d of its fields *)

\* CustomBPlusDB::CustomBPlusDB(): nodes is the heap of BPlusTreeNode objects.
FreshDB ==
    [nodes |-> <<NewNode(TRUE)>>, root |-> 1, total_records |-> 0, tree_height |-> 1,
     db_path_ |-> "", memory_mapped_ |-> FALSE, cached_records_ |-> <<>>]

\* The cache refresh test at the end of insert_record.
RefreshDue(total) == total % REFRESH_INTERVAL = 0

\* The end of insert_record: total_records++ and the periodic cache refresh.
CountAndRefresh(d) ==
    IF RefreshDue(d.total_records + 1)
    THEN [d EXCEPT !.total_records = @ + 1,
                   !.cached_records_ = CollectLeafRecords(d.nodes, d.root),
                   !.memory_mapped_ = TRUE]
    ELSE [d EXCEPT !.total_records = @ + 1]

\* A root split that installs the new root and leaves tree_height as it was.
InstallNewRootSameHeight(d, s, new_root) ==
    [d EXCEPT !.nodes = [s.heap EXCEPT
                           ![new_root].keys = <<s.heap[s.new_node].keys[1]>>,
                           ![new_root].children = <<d.root, s.new_node>>,
                           ![new_root].key_count = 1],
              !.root = new_root]

\* The root split of insert_record: s is what root->split() returned on the heap
\* that already holds the new root at address new_root.
InstallNewRoot(d, s, new_root) ==
    [d EXCEPT !.nodes = [s.heap EXCEPT
                           ![new_root].keys = <<s.heap[s.new_node].keys[1]>>,
                           ![new_root].children = <<d.root, s.new_node>>,
                           ![new_root].key_count = 1],
              !.root = new_root,
              !.tree_height = @ + 1]

\* The root split of insert_record on heap h0, the new root allocated last.
RootSplit(d, h0) == InstallNewRoot(d, Split(h0, d.root), Len(h0))

\* insert_record after insert_into_node(root, record) returned r.
AfterRootInsert(d, r) ==
    CountAndRefresh(IF r.split
                    THEN RootSplit(d, Append(r.heap, NewNode(FALSE)))
                    ELSE [d EXCEPT !.nodes = r.heap])

\* CustomBPlusDB::insert_record (the exclusive lock makes it one step).
InsertRecordOp(d, rec) == AfterRootInsert(d, InsertIntoNode(d.nodes, d.root, rec))

\* The least record of a non-empty set, by id.
MinById(S) == CHOOSE r \in S : \A q \in S : r.id <= q.id

\* The records of a set, sorted by id (std::sort in insert_batch; ids are distinct).
RECURSIVE SortById(_)
SortById(S) ==
    IF S = {} THEN <<>> ELSE <<MinById(S)>> \o SortById(S \ {MinById(S)})

RECURSIVE InsertAll(_, _)
InsertAll(d, recs) ==
    IF recs = <<>> THEN d ELSE InsertAll(InsertRecordOp(d, Head(recs)), Tail(recs))

\* CustomBPlusDB::insert_batch
InsertBatchOp(d, S) == InsertAll(d, SortById(S))

\* CustomBPlusDB::create_database
CreateDatabaseOp(d, path) ==
    [d EXCEPT !.db_path_ = path, !.nodes = <<NewNode(TRUE)>>, !.root = 1,
              !.total_records = 0, !.tree_height = 1,
              !.memory_mapped_ = FALSE, !.cached_records_ = <<>>]

\* The leaf sequence of a store, as collect_leaf_records returns it.
LeafSeqOf(d) == CollectLeafRecords(d.nodes, d.root)

\* The leaf sequence of the store.
LeafSeq == LeafSeqOf(db)

\* The ids of the records the tree holds.
StoredIds == {r.id : r \in Range(CollectAllRecords(db.nodes, db.root))}

----------------------------------------------------------------------------
(* Integer conversions of the samplers *)

\* sizeof(Record): int64 id, double amount, int32 region, int32 product_id, int64 timestamp.
SIZEOF_RECORD == 32

\* The width of size_t: 64 in the source, scaled so that 2 ^ SIZE_T_BITS is an
\* integer of the model; every record count of the model is far below it.
SIZE_T_BITS == 30

\* The conversion of an int to size_t in a mixed comparison or division.
ToSizeT(x) == IF x < 0 THEN x + 2 ^ SIZE_T_BITS ELSE x

\* static_cast<int>(n * sample_percent / 100.0): truncation toward zero.
Target(n, p) == IF p >= 0 THEN (n * p) \div 100 ELSE -((n * (-p)) \div 100)

\* for (i = start; i < size && samples.size() < limit; i += step) push(s[i]),
\* with start and step 0-based offsets and limit already a size_t.
RECURSIVE StrideTake(_, _, _, _)
StrideTake(s, start, step, limit) ==
    IF start >= Len(s) \/ limit <= 0 THEN <<>>
    ELSE <<s[start + 1]>> \o StrideTake(s, start + step, step, limit - 1)

\* The value every call reports in ret.
Ret(op, ok, path, p, value) == [op |-> op, ok |-> ok, path |-> path, p |-> p, value |-> value]

----------------------------------------------------------------------------
(* memory_stride_sample *)

\* The fast path of the samplers that read the cache.
FastPath(d) == d.memory_mapped_ /\ d.cached_records_ # <<>>

\* record_stride of memory_stride_sample's fast path (std::max(1UL, ...)).
FastStride(n, target_count, stride_bytes) ==
    IF stride_bytes = 0 THEN Max(1, n \div ToSizeT(target_count))
    ELSE Max(1, stride_bytes \div SIZEOF_RECORD)

\* record_stride of memory_stride_sample's fallback path (0 becomes 1).
FallbackStride(total, target_count, stride_bytes) ==
    IF stride_bytes = 0
    THEN (IF total \div ToSizeT(target_count) = 0 THEN 1
          ELSE total \div ToSizeT(target_count))
    ELSE (IF stride_bytes \div SIZEOF_RECORD = 0 THEN 1
          ELSE stride_bytes \div SIZEOF_RECORD)

\* The fast path of memory_stride_sample over the cached records.
StrideFast(d, target_count, stride_bytes) ==
    [db |-> d, path |-> "fast",
     samples |-> IF target_count = 0 THEN <<>>
                 ELSE StrideTake(d.cached_records_, 0,
                                 FastStride(Len(d.cached_records_), target_count, stride_bytes),
                                 ToSizeT(target_count))]

\* The fallback path of memory_stride_sample: total is root->subtree_record_count
\* as it stands; the cache is filled when memory_mapped_ is false.
StrideFallback(d, total, target_count, stride_bytes) ==
    IF total = 0 \/ target_count = 0 \/ LeafSeqOf(d) = <<>>
    THEN [db |-> d, path |-> "fallback", samples |-> <<>>]
    ELSE [db |-> IF ~d.memory_mapped_
                 THEN [d EXCEPT !.cached_records_ = LeafSeqOf(d), !.memory_mapped_ = TRUE]
                 ELSE d,
          path |-> "fallback",
          samples |-> StrideTake(LeafSeqOf(d), 0,
                                 FallbackStride(total, target_count, stride_bytes),
                                 ToSizeT(target_count))]

\* CustomBPlusDB::memory_stride_sample: the store afterwards, the path taken
\* and the sample.
MemoryStrideSampleOp(d, p, stride_bytes) ==
    IF d.root = NULL THEN [db |-> d, path |-> "noroot", samples |-> <<>>]
    ELSE IF FastPath(d)
    THEN StrideFast(d, Target(Len(d.cached_records_), p), stride_bytes)
    ELSE StrideFallback(d, d.nodes[d.root].subtree_record_count,
                        Target(d.nodes[d.root].subtree_record_count, p), stride_bytes)

----------------------------------------------------------------------------
(* update_subtree_counts *)

\* The stores and loads BPlusTreeNode::update_subtree_counts performs on the
\* subtree at nid, in program order: "set" writes key_count (leaf) or 0
\* (internal) into the node's subtree_record_count; "load" reads the node's and
\* a child's count for subtree_record_count += child->subtree_record_count, and
\* "store" writes the sum back.
RECURSIVE UpdateSteps(_, _)
UpdateSteps(heap, nid) ==
    IF heap[nid].is_leaf THEN <<[k |-> "set", node |-> nid, child |-> NULL]>>
    ELSE <<[k |-> "set", node |-> nid, child |-> NULL]>> \o
         Flatten([c \in 1..(heap[nid].key_count + 1) |->
                    IF heap[nid].children[c] # NULL
                    THEN UpdateSteps(heap, heap[nid].children[c]) \o
                         <<[k |-> "load", node |-> nid, child |-> heap[nid].children[c]],
                           [k |-> "store", node |-> nid, child |-> heap[nid].children[c]]>>
                    ELSE <<>>])

\* The value a "load" step leaves in the thread's register.
LoadStep(heap, st) ==
    heap[st.node].subtree_record_count + heap[st.child].subtree_record_count

\* A refresh that recomputes the internal nodes only and keeps each leaf's count.
ApplyStepSkipsLeaves(heap, st, acc) ==
    IF st.k = "set" /\ ~heap[st.node].is_leaf
    THEN [heap EXCEPT ![st.node].subtree_record_count = 0]
    ELSE IF st.k = "store"
    THEN [heap EXCEPT ![st.node].subtree_record_count = acc]
    ELSE heap

\* The heap after one step of update_subtree_counts, acc being the register.
ApplyStep(heap, st, acc) ==
    IF st.k = "set"
    THEN [heap EXCEPT ![st.node].subtree_record_count =
                         IF heap[st.node].is_leaf THEN heap[st.node].key_count ELSE 0]
    ELSE IF st.k = "store"
    THEN [heap EXCEPT ![st.node].subtree_record_count = acc]
    ELSE heap

\* The steps of update_subtree_counts run by one thread without interruption.
RECURSIVE RunSteps(_, _, _)
RunSteps(heap, steps, acc) ==
    IF steps = <<>> THEN heap
    ELSE RunSteps(ApplyStep(heap, Head(steps), acc), Tail(steps),
                  IF Head(steps).k = "load" THEN LoadStep(heap, Head(steps)) ELSE acc)

\* root->update_subtree_counts() on store d.
UpdateSubtreeCounts(d) ==
    [d EXCEPT !.nodes = RunSteps(d.nodes, UpdateSteps(d.nodes, d.root), 0)]

----------------------------------------------------------------------------
(* The pointer, block and page samplers: walks over collect_leaf_records() *)

\* What a sampler call yields: the store afterwards, the path it took and the
\* records it returned.
Yield(d, path, samples) == [db |-> d, path |-> path, samples |-> samples]

\* The first n elements of a sequence (all of it when it is shorter).
Take(s, n) == SubSeq(s, 1, Min(n, Len(s)))

\* std::max(1, static_cast<int>(all_records.size() / target_count)), the int
\* target converted to size_t by the division.
PointerStep(n, target) == Max(1, n \div ToSizeT(target))

\* The body of fast_pointer_sample and slow_pointer_sample on the leaf
\* sequence all: mult is the step multiplier (1 for the slow pointer).
PointerWalk(all, target, mult) ==
    IF all = <<>> \/ target = 0 THEN <<>>
    ELSE StrideTake(all, 0, PointerStep(Len(all), target) * mult, ToSizeT(target))

\* CustomBPlusDB::slow_pointer_sample
SlowPointerSampleOp(d, p) ==
    Yield(d, "", PointerWalk(LeafSeqOf(d), Target(Len(LeafSeqOf(d)), p), 1))

\* CustomBPlusDB::fast_pointer_sample
FastPointerSampleOp(d, p, step_size) ==
    Yield(d, "", PointerWalk(LeafSeqOf(d), Target(Len(LeafSeqOf(d)), p), step_size))

\* What an integer division by zero does (undefined behaviour): the x86 div
\* instruction traps (SIGFPE), the AArch64 udiv instruction yields 0.
DivByZeroOutcomes == {"trap", "zero"}

\* The second loop of dual_pointer_sample, appended to the fast pointer's records.
DualSlowWalk(all, fast, target, fast_step, slow_target) ==
    fast \o StrideTake(all, fast_step \div 2, PointerStep(Len(all), slow_target),
                       ToSizeT(target) - Len(fast))

\* dual_pointer_sample once fast_step is known.
DualWalk(all, target, fast_target, fast_step) ==
    DualSlowWalk(all, StrideTake(all, 0, fast_step, ToSizeT(fast_target)),
                 target, fast_step, target - fast_target)

\* dual_pointer_sample from fast_target = target_count / 3 on: the division
\* all_records.size() / fast_target is by zero when target_count < 3.
DualFrom(d, all, target, fast_target, div0) ==
    IF fast_target = 0
    THEN (IF div0 = "trap" THEN Yield(d, "SIGFPE", <<>>)
          ELSE Yield(d, "", DualWalk(all, target, 0, 3)))
    ELSE Yield(d, "", DualWalk(all, target, fast_target,
                               PointerStep(Len(all), fast_target) * 3))

\* CustomBPlusDB::dual_pointer_sample (0 < p: target_count is not negative).
DualPointerSampleOp(d, p, div0) ==
    IF LeafSeqOf(d) = <<>> \/ Target(Len(LeafSeqOf(d)), p) = 0 THEN Yield(d, "", <<>>)
    ELSE DualFrom(d, LeafSeqOf(d), Target(Len(LeafSeqOf(d)), p),
                  Target(Len(LeafSeqOf(d)), p) \div 3, div0)

\* The records of the blocks block_idx, block_idx + interval, ... below
\* total_blocks, in the order block_sample visits them.
RECURSIVE BlockRecords(_, _, _, _, _)
BlockRecords(all, block_idx, interval, total_blocks, block_size) ==
    IF block_idx >= total_blocks THEN <<>>
    ELSE SubSeq(all, block_idx * block_size + 1,
                Min(block_idx * block_size + block_size, Len(all)))
         \o BlockRecords(all, block_idx + interval, interval, total_blocks, block_size)

\* What static_cast<size_t> does to a double of -1 or below (undefined
\* behaviour): the x86-64 conversion truncates to a signed integer that is then
\* read as unsigned, the AArch64 fcvtzu instruction saturates to 0.
CastOutcomes == {"wrap", "zero"}

\* static_cast<size_t>(n * sample_percent / 100.0)
CastToSizeT(n, p, cast) ==
    IF Target(n, p) >= 0 THEN Target(n, p)
    ELSE IF cast = "wrap" THEN ToSizeT(Target(n, p)) ELSE 0

\* block_interval: total_blocks / max(1, blocks_to_sample), 0 replaced by 1.
BlockInterval(total_blocks, p, cast) ==
    Max(1, total_blocks \div Max(1, CastToSizeT(total_blocks, p, cast)))

\* The loops of block_sample and page_sample: both stop at target_count records.
BlockWalk(all, target, p, block_size, cast) ==
    IF all = <<>> \/ target = 0 THEN <<>>
    ELSE Take(BlockRecords(all, 0,
                           BlockInterval((Len(all) + block_size - 1) \div block_size, p,
                                         cast),
                           (Len(all) + block_size - 1) \div block_size, block_size),
              ToSizeT(target))

\* CustomBPlusDB::block_sample (block_size > 0)
BlockSampleOp(d, p, block_size, cast) ==
    Yield(d, "", BlockWalk(LeafSeqOf(d), Target(Len(LeafSeqOf(d)), p), p, block_size, cast))

\* CustomBPlusDB::page_sample: records_per_page = page_size / sizeof(Record), 0 replaced by 1.
PageSampleOp(d, p, page_size, cast) ==
    Yield(d, "", BlockWalk(LeafSeqOf(d), Target(Len(LeafSeqOf(d)), p), p,
                           Max(1, page_size \div SIZEOF_RECORD), cast))

\* A generator that is not started from the seed at each call: the second of
\* two calls continues from another state.
RngCarriedOver(seed) ==
    IF ret.op = "random_pointer_sample" THEN (seed + 1) % 16 ELSE seed % 16

\* std::mt19937 is a fixed function of its seed; the generator is modelled by
\* a congruential generator of full period 16, seeded with seed.
\* The state std::mt19937 rng(seed) starts in.
RngSeed(seed) == seed % 16

\* The state after one draw.
RngNext(x) == (5 * x + 3) % 16

\* dist(rng) for std::uniform_int_distribution<size_t> dist(0, n - 1).
RngDraw(x, n) == x % n

\* The while loop of random_pointer_sample: positions are drawn into the set
\* until it holds limit of them (target_count as a size_t) or all n.
RECURSIVE SelectPositions(_, _, _, _)
SelectPositions(x, selected_positions, limit, n) ==
    IF Cardinality(selected_positions) < limit /\ Cardinality(selected_positions) < n
    THEN SelectPositions(RngNext(x), selected_positions \cup {RngDraw(x, n)}, limit, n)
    ELSE selected_positions

\* The iteration of a std::set<size_t>: its elements in increasing order.
RECURSIVE InOrder(_)
InOrder(S) ==
    IF S = {} THEN <<>>
    ELSE <<CHOOSE m \in S : \A k \in S : m <= k>>
         \o InOrder(S \ {CHOOSE m \in S : \A k \in S : m <= k})

\* The positions random_pointer_sample selects on n records, in the order
\* their records are pushed.
RandomPositions(n, target, seed) ==
    IF n = 0 \/ target = 0 THEN <<>>
    ELSE InOrder(SelectPositions(RngSeed(seed), {}, ToSizeT(target), n))

\* The records at 0-based positions pos of all.
RecordsAt(all, pos) == [k \in 1..Len(pos) |-> all[pos[k] + 1]]

\* CustomBPlusDB::random_pointer_sample
RandomPointerSampleOp(d, p, seed) ==
    Yield(d, "", RecordsAt(LeafSeqOf(d),
                           RandomPositions(Len(LeafSeqOf(d)),
                                           Target(Len(LeafSeqOf(d)), p), seed)))

----------------------------------------------------------------------------
(* The tree-walking samplers *)

\* The leaves of the subtree at nid in child order.
RECURSIVE LeafNodes(_, _)
LeafNodes(heap, nid) ==
    IF heap[nid].is_leaf THEN <<nid>>
    ELSE Flatten([c \in 1..(heap[nid].key_count + 1) |->
                    IF heap[nid].children[c] # NULL
                    THEN LeafNodes(heap, heap[nid].children[c])
                    ELSE <<>>])

\* sample_by_index of index_based_sample over the records in child order:
\* the record at current_index is taken when
\* current_index >= static_cast<size_t>(sampled.size() * step), step = total / target.
RECURSIVE IndexWalk(_, _, _, _, _)
IndexWalk(recs, current_index, sampled, total, target) ==
    IF recs = <<>> \/ Len(sampled) >= target THEN sampled
    ELSE IndexWalk(Tail(recs), current_index + 1,
                   IF current_index >= (Len(sampled) * total) \div target
                   THEN Append(sampled, Head(recs)) ELSE sampled,
                   total, target)

\* index_based_sample after root->update_subtree_counts() left store d.
IndexBasedFrom(d, total, target) ==
    IF target = 0 THEN Yield(d, "", <<>>)
    ELSE Yield(d, "", IndexWalk(GetAllRecords(d.nodes, d.root), 0, <<>>, total, target))

\* The sampling part of index_based_sample, reading the root's count as it stands.
IndexBasedBody(d, p) ==
    IndexBasedFrom(d, d.nodes[d.root].subtree_record_count,
                   Target(d.nodes[d.root].subtree_record_count, p))

\* CustomBPlusDB::index_based_sample
IndexBasedSampleOp(d, p) ==
    IF d.root = NULL \/ p <= 0 THEN Yield(d, "", <<>>)
    ELSE IF p >= 100 THEN Yield(d, "all", CollectAllRecords(d.nodes, d.root))
    ELSE IndexBasedBody(UpdateSubtreeCounts(d), p)

\* skip_sample of node_skip_sample over the leaves in child order: every
\* skip_factor-th leaf gives its first records, up to target_samples in all.
RECURSIVE NodeSkipWalk(_, _, _, _, _, _)
NodeSkipWalk(heap, leaves, node_counter, sampled, target, skip_factor) ==
    IF leaves = <<>> \/ Len(sampled) >= target THEN sampled
    ELSE NodeSkipWalk(heap, Tail(leaves), node_counter + 1,
                      IF (node_counter + 1) % skip_factor = 0
                      THEN sampled \o Take(heap[Head(leaves)].records,
                                           Min(target - Len(sampled),
                                               heap[Head(leaves)].key_count))
                      ELSE sampled,
                      target, skip_factor)

\* The sampling part of node_skip_sample, reading the root's count as it stands.
NodeSkipBody(d, p, skip_factor) ==
    Yield(d, "", NodeSkipWalk(d.nodes, LeafNodes(d.nodes, d.root), 0, <<>>,
                              Target(d.nodes[d.root].subtree_record_count, p),
                              skip_factor))

\* CustomBPlusDB::node_skip_sample (skip_factor > 0)
NodeSkipSampleOp(d, p, skip_factor) ==
    IF d.root = NULL \/ p <= 0 THEN Yield(d, "", <<>>)
    ELSE IF p >= 100 THEN Yield(d, "all", CollectAllRecords(d.nodes, d.root))
    ELSE NodeSkipBody(UpdateSubtreeCounts(d), p, skip_factor)

\* The leaf case of balanced_sample: records_to_take evenly spaced records,
\* index = static_cast<int>(i * step) with step = key_count / records_to_take.
RECURSIVE LeafSpread(_, _, _, _, _)
LeafSpread(n, i, records_to_take, sampled, target) ==
    IF i >= records_to_take \/ Len(sampled) >= target THEN sampled
    ELSE LeafSpread(n, i + 1, records_to_take,
                    IF (i * n.key_count) \div records_to_take < n.key_count
                    THEN Append(sampled, n.records[(i * n.key_count) \div records_to_take + 1])
                    ELSE sampled,
                    target)

\* balanced_sample of balanced_tree_sample on the node at nid, and its loop over
\* the children from child c (1-based) on.
RECURSIVE BalancedSample(_, _, _, _, _)
RECURSIVE BalancedChildren(_, _, _, _, _, _)
BalancedSample(heap, nid, samples_for_subtree, sampled, target) ==
    IF nid = NULL \/ Len(sampled) >= target \/ samples_for_subtree = 0 THEN sampled
    ELSE IF heap[nid].is_leaf
    THEN LeafSpread(heap[nid], 0, Min(samples_for_subtree, heap[nid].key_count),
                    sampled, target)
    ELSE BalancedChildren(heap, nid, 1, samples_for_subtree, sampled, target)

BalancedChildren(heap, nid, c, samples_for_subtree, sampled, target) ==
    IF c > heap[nid].key_count + 1 \/ Len(sampled) >= target THEN sampled
    ELSE BalancedChildren(heap, nid, c + 1, samples_for_subtree,
             IF heap[nid].children[c] # NULL
                /\ heap[heap[nid].children[c]].subtree_record_count > 0
             THEN BalancedSample(heap, heap[nid].children[c],
                      (samples_for_subtree
                         * heap[heap[nid].children[c]].subtree_record_count)
                        \div heap[nid].subtree_record_count,
                      sampled, target)
             ELSE sampled,
             target)

\* The sampling part of balanced_tree_sample, reading the counts as they stand.
BalancedBody(d, p) ==
    Yield(d, "", BalancedSample(d.nodes, d.root,
                                Target(d.nodes[d.root].subtree_record_count, p), <<>>,
                                Target(d.nodes[d.root].subtree_record_count, p)))

\* CustomBPlusDB::balanced_tree_sample
BalancedTreeSampleOp(d, p) ==
    IF d.root = NULL \/ p <= 0 THEN Yield(d, "", <<>>)
    ELSE IF p >= 100 THEN Yield(d, "all", CollectAllRecords(d.nodes, d.root))
    ELSE BalancedBody(UpdateSubtreeCounts(d), p)

\* traverse_and_sample of optimized_sequential_sample over the records in child
\* order: the record counted current_count is taken when
\* current_count >= start_offset + k * (100 / p), k the records taken so far;
\* u is start_offset * p, in [0, 100).
RECURSIVE SequentialWalk(_, _, _, _, _, _)
SequentialWalk(recs, current_count, sampled, target, p, u) ==
    IF recs = <<>> \/ Len(sampled) >= target THEN sampled
    ELSE SequentialWalk(Tail(recs), current_count + 1,
                        IF (current_count + 1) * p >= u + Len(sampled) * 100
                        THEN Append(sampled, Head(recs)) ELSE sampled,
                        target, p, u)

\* CustomBPlusDB::optimized_sequential_sample
OptimizedSequentialSampleOp(d, p, u) ==
    IF d.root = NULL \/ p >= 100 THEN Yield(d, "all", CollectAllRecords(d.nodes, d.root))
    ELSE IF p <= 0 \/ Target(d.total_records, p) = 0 THEN Yield(d, "", <<>>)
    ELSE Yield(d, "", SequentialWalk(CollectAllRecords(d.nodes, d.root), 0, <<>>,
                                     Target(d.total_records, p), p, u))

\* The sequence s reversed.
Reverse(s) == [k \in 1..Len(s) |-> s[Len(s) + 1 - k]]

\* Two of the orders std::shuffle can leave the records in.
Shuffles(s) == {s, Reverse(s)}

\* sample_records once collect_all_records() returned all and std::shuffle left
\* it as shuffled.
SampleRecordsFrom(d, all, p, shuffled) ==
    IF all = <<>> \/ p >= 100 THEN Yield(d, "all", all)
    ELSE Yield(d, "", Take(shuffled, ToSizeT(Target(Len(all), p))))

\* CustomBPlusDB::sample_records
SampleRecordsOp(d, p, shuffled) ==
    SampleRecordsFrom(d, CollectAllRecords(d.nodes, d.root), p, shuffled)

----------------------------------------------------------------------------
(* Worker regions and the multithreaded samplers *)

\* An index range [start, end) of the record vector; end <= start is empty.
Region(start, end) == [start |-> start, end |-> end]

\* The indices of a range.
Indices(r) == r.start .. (r.end - 1)

\* The region of worker t (0-based) of multithreaded_memory_stride_sample and
\* of fast_aggregated_memory_stride_sum over total_rows rows:
\* region_start = t * region_size, thread_region_size = region_size +
\* (t < remaining_rows ? 1 : 0); a worker whose region_start is past the rows
\* returns at once, and region_end is clipped to total_rows.
StrideRegion(t, total_rows, num_threads) ==
    IF t * (total_rows \div num_threads) >= total_rows
    THEN Region(t * (total_rows \div num_threads), t * (total_rows \div num_threads))
    ELSE Region(t * (total_rows \div num_threads),
                Min(total_rows,
                    t * (total_rows \div num_threads) + (total_rows \div num_threads)
                      + (IF t < total_rows % num_threads THEN 1 ELSE 0)))

\* The range of worker t (0-based) of optimized_clt_sample:
\* records_per_thread = total_records / optimal_threads, the last worker's
\* range ending at total_records.
CltRegion(t, total_records, optimal_threads) ==
    Region(t * (total_records \div optimal_threads),
           IF t = optimal_threads - 1 THEN total_records
           ELSE (t + 1) * (total_records \div optimal_threads))

\* The range of fast or slow worker t (0-based) of
\* clt_validated_dual_pointer_sample among n workers of its kind.
DualRegion(t, total_records, n) ==
    Region((total_records * t) \div n, (total_records * (t + 1)) \div n)

\* static_cast<size_t>(region_total * (sample_percent / num_threads) / 100.0)
RegionTarget(region_total, p, num_threads) == (region_total * p) \div (100 * num_threads)

\* The largest offset random_start_dist can add to region_start.
MaxStartOffset(region_total) == Min(region_total \div 10, 100)

\* The stride loop of one worker over its region: offsets thread_start,
\* thread_start + stride, ... below region_end, at most target_samples of them.
RegionWalk(cache, r, target_samples, thread_start) ==
    IF r.end <= r.start \/ target_samples = 0 THEN <<>>
    ELSE StrideTake(SubSeq(cache, 1, r.end), thread_start,
                    Max(1, (r.end - r.start) \div target_samples), target_samples)

\* The records worker t (0-based) of multithreaded_memory_stride_sample returns;
\* pick is the draw of random_start_dist, as an offset from region_start.
WorkerSamples(cache, t, p, num_threads, pick) ==
    RegionWalk(cache, StrideRegion(t, Len(cache), num_threads),
               RegionTarget(StrideRegion(t, Len(cache), num_threads).end
                              - StrideRegion(t, Len(cache), num_threads).start,
                            p, num_threads),
               StrideRegion(t, Len(cache), num_threads).start
                 + Min(pick, MaxStartOffset(StrideRegion(t, Len(cache), num_threads).end
                                - StrideRegion(t, Len(cache), num_threads).start)))

\* The cache fill at the head of multithreaded_memory_stride_sample and of
\* fast_aggregated_memory_stride_sum.
EnsureCache(d) ==
    IF ~d.memory_mapped_ \/ d.cached_records_ = <<>>
    THEN [d EXCEPT !.cached_records_ = LeafSeqOf(d), !.memory_mapped_ = TRUE]
    ELSE d

\* multithreaded_memory_stride_sample once the cache is in place: the workers'
\* records in worker order (the futures are collected in launch order).
MultithreadedFrom(d, p, num_threads, picks) ==
    IF d.cached_records_ = <<>> THEN Yield(d, "", <<>>)
    ELSE Yield(d, "", Flatten([w \in 1..num_threads |->
                 WorkerSamples(d.cached_records_, w - 1, p, num_threads, picks[w])]))

\* CustomBPlusDB::multithreaded_memory_stride_sample (num_threads >= 1)
MultithreadedMemoryStrideSampleOp(d, p, num_threads, picks) ==
    IF d.root = NULL THEN Yield(d, "noroot", <<>>)
    ELSE MultithreadedFrom(EnsureCache(d), p, num_threads, picks)

\* The thresholds of optimized_clt_sample: one worker per OPT_TARGET_PER_THREAD
\* target samples (100 in the source), and the single-threaded path below
\* OPT_MIN_RECORDS records (5000) or OPT_MIN_TARGET target samples (200); scaled.
OPT_TARGET_PER_THREAD == 2

OPT_MIN_RECORDS == 6

OPT_MIN_TARGET == 4

\* optimal_threads of optimized_clt_sample.
OptimalThreads(target_samples, num_threads) ==
    Min(num_threads, Max(1, target_samples \div OPT_TARGET_PER_THREAD))

\* local_target of worker t (0-based) of optimized_clt_sample.
LocalTarget(t, target_samples, optimal_threads) ==
    IF t = optimal_threads - 1
    THEN target_samples - (optimal_threads - 1) * (target_samples \div optimal_threads)
    ELSE target_samples \div optimal_threads

\* The records worker t of optimized_clt_sample returns: the convergence test
\* after the loop returns the same vector on both of its branches.
CltWorkerSamples(all, t, target_samples, optimal_threads) ==
    RegionWalk(all, CltRegion(t, Len(all), optimal_threads),
               LocalTarget(t, target_samples, optimal_threads),
               CltRegion(t, Len(all), optimal_threads).start)

\* optimized_clt_sample on a non-empty leaf sequence with a positive target.
OptimizedCltFrom(d, all, target_samples, optimal_threads) ==
    IF Len(all) < OPT_MIN_RECORDS \/ target_samples < OPT_MIN_TARGET \/ optimal_threads = 1
    THEN Yield(d, "single", StrideTake(all, 0, Max(1, Len(all) \div target_samples),
                                       target_samples))
    ELSE Yield(d, "multi", Flatten([w \in 1..optimal_threads |->
                  CltWorkerSamples(all, w - 1, target_samples, optimal_threads)]))

\* CustomBPlusDB::optimized_clt_sample (0 < p, num_threads >= 1)
OptimizedCltSampleOp(d, p, num_threads) ==
    IF LeafSeqOf(d) = <<>> \/ Target(Len(LeafSeqOf(d)), p) = 0 THEN Yield(d, "", <<>>)
    ELSE OptimizedCltFrom(d, LeafSeqOf(d), Target(Len(LeafSeqOf(d)), p),
                          OptimalThreads(Target(Len(LeafSeqOf(d)), p), num_threads))

----------------------------------------------------------------------------
(* fast_aggregated_memory_stride_sum: the workers and the shared accumulators *)

\* The amounts of a sequence of records.
Amounts(recs) == [k \in 1..Len(recs) |-> recs[k].amount]

\* Worker t (0-based) of fast_aggregated_memory_stride_sum as its sampling loop
\* leaves it: thread_sum and thread_sample_count are local; a worker whose
\* region is empty or whose target is 0 has returned without touching the
\* shared accumulators.
AggWorker(recs) ==
    [pc |-> IF recs = <<>> THEN "done" ELSE "load",
     thread_sum |-> SumSeq(Amounts(recs)),
     thread_sample_count |-> Len(recs),
     current_sum |-> 0]

\* The workers fast_aggregated_memory_stride_sum launches over the cache.
AggWorkers(cache, p, num_threads, picks) ==
    [w \in 1..num_threads |->
        AggWorker(WorkerSamples(cache, w - 1, p, num_threads, picks[w]))]

\* A store in place of the compare-and-swap: the held value is not compared.
CasNeverCompares(held, expected) == TRUE

\* The comparison of compare_exchange_weak: the value held against the
\* expected one.
CasMatches(held, expected) == held = expected

\* total_sum.compare_exchange_weak(current_sum, current_sum + thread_sum) by
\* worker w with the accumulator holding a.total_sum: on success the new value
\* is stored and the worker goes on to the fetch_add; on failure current_sum is
\* reloaded and the loop retries.
CasStep(a, w) ==
    IF CasMatches(a.total_sum, a.workers[w].current_sum)
    THEN [a EXCEPT !.total_sum = a.workers[w].current_sum + a.workers[w].thread_sum,
                   !.workers[w].pc = "fetch_add"]
    ELSE [a EXCEPT !.workers[w].current_sum = a.total_sum,
                   !.retried = TRUE]

\* return final_count > 0 ? total_sum.load() : 0.0
AggResult(a) == IF a.total_sample_count > 0 THEN a.total_sum ELSE 0

----------------------------------------------------------------------------
(* clt_validated_dual_pointer_sample: the workers and the controller *)

\* The sample sizes the convergence tests of clt_validated_dual_pointer_sample
\* wait for: a fast worker publishes its statistics from CLT_FAST_MIN values on
\* (30 in the source) and may stop the run from CLT_FAST_STOP values on (50);
\* a slow worker validates from CLT_SLOW_MIN values on (20).  Scaled, in order.
CLT_SLOW_MIN == 1

CLT_FAST_MIN == 2

CLT_FAST_STOP == 3

\* z_score squared, times 10^4, for the default confidence_level 0.95 (1.96).
Z_SQUARED_E4 == 38416

\* The default max_error_percent.
MAX_ERROR_PERCENT == 2

\* The sum of the squares of a sequence of numbers.
SumSquares(vals) == SumSeq([k \in 1..Len(vals) |-> vals[k] * vals[k]])

\* error_percent <= max_error_percent for the values vals (two or more, of
\* positive mean), with error_percent = z * sqrt(var / n) / mean * 100 and var
\* the sample variance: both sides squared and cleared of denominators.
ErrorWithin(vals) ==
    Z_SQUARED_E4 * (Len(vals) * SumSquares(vals) - SumSeq(vals) * SumSeq(vals))
        <= MAX_ERROR_PERCENT * MAX_ERROR_PERCENT * SumSeq(vals) * SumSeq(vals)
             * (Len(vals) - 1)

\* The distance between two integers.
Dist(a, b) == IF a >= b THEN a - b ELSE b - a

\* global_mean > 0 and |local_mean - global_mean| / global_mean <=
\* max_error_percent / 100, the means held as sum / n.
MeanClose(vals, g) ==
    /\ g.sum > 0
    /\ 100 * Dist(SumSeq(vals) * g.n, g.sum * Len(vals))
          <= MAX_ERROR_PERCENT * g.sum * Len(vals)

\* The quotient (thread_end - thread_start) / (base_target_count / n) of a
\* worker among n of its kind; a zero divisor is undefined behaviour, and the
\* outcome div0 = "zero" gives the quotient 0.
StepQuotient(r, base_target_count, n) ==
    IF base_target_count \div n = 0 THEN 0
    ELSE (r.end - r.start) \div (base_target_count \div n)

\* Fast worker t (0-based) of fast_threads as launched.
FastWorker(t, total_records, base_target_count, fast_threads) ==
    [kind |-> "fast", pc |-> "head",
     i |-> DualRegion(t, total_records, fast_threads).start,
     thread_end |-> DualRegion(t, total_records, fast_threads).end,
     step |-> Max(3, StepQuotient(DualRegion(t, total_records, fast_threads),
                                  base_target_count, fast_threads)),
     local_samples |-> <<>>]

\* Slow worker t (0-based) of slow_threads as launched: it starts at
\* thread_start + slow_step / 2.
SlowWorkerAt(r, slow_step) ==
    [kind |-> "slow", pc |-> "head", i |-> r.start + slow_step \div 2,
     thread_end |-> r.end, step |-> slow_step, local_samples |-> <<>>]

SlowWorker(t, total_records, base_target_count, slow_threads) ==
    SlowWorkerAt(DualRegion(t, total_records, slow_threads),
                 Max(1, StepQuotient(DualRegion(t, total_records, slow_threads),
                                     base_target_count, slow_threads)))

\* The workers clt_validated_dual_pointer_sample launches: num_threads / 2 fast
\* ones, then the slow ones.
CltWorkers(total_records, base_target_count, num_threads) ==
    [t \in 1..(num_threads \div 2) |->
        FastWorker(t - 1, total_records, base_target_count, num_threads \div 2)]
    \o [t \in 1..(num_threads - num_threads \div 2) |->
        SlowWorker(t - 1, total_records, base_target_count,
                   num_threads - num_threads \div 2)]

\* Some worker of the call divides by zero when it computes its step.
CltDividesByZero(base_target_count, num_threads) ==
    \/ (num_threads \div 2 > 0 /\ base_target_count \div (num_threads \div 2) = 0)
    \/ base_target_count \div (num_threads - num_threads \div 2) = 0

\* The loop condition of a worker: i < thread_end && !should_stop.load().
HeadStep(c, w) ==
    [c EXCEPT !.workers[w].pc =
        IF c.workers[w].i < c.workers[w].thread_end /\ ~c.should_stop
        THEN "body" ELSE "merge"]

\* The end of a loop iteration: break with should_stop set, or i += step.
LoopEnd(c, w, stop) ==
    IF stop
    THEN [c EXCEPT !.should_stop = TRUE, !.workers[w].pc = "merge"]
    ELSE [c EXCEPT !.workers[w].i = @ + c.workers[w].step, !.workers[w].pc = "head"]

\* The convergence test of a fast worker on its values vals, the record pushed.
FastCheck(c, w, vals) ==
    IF Len(vals) % c.check_interval = 0 /\ Len(vals) >= CLT_FAST_MIN
    THEN LoopEnd([c EXCEPT !.current_mean = [sum |-> SumSeq(vals), n |-> Len(vals)],
                           !.sample_count = Len(vals)],
                 w, ErrorWithin(vals) /\ Len(vals) >= CLT_FAST_STOP)
    ELSE LoopEnd(c, w, FALSE)

\* The validation test of a slow worker on its values vals, the record pushed.
SlowCheck(c, w, vals) ==
    LoopEnd(c, w,
            /\ Len(vals) % (c.check_interval \div 2) = 0
            /\ Len(vals) >= CLT_SLOW_MIN
            /\ MeanClose(vals, c.current_mean)
            /\ c.sample_count >= c.base_target_count \div 2)

\* A loop iteration of worker w once the record at i has been pushed.
CheckStep(c, w) ==
    IF c.workers[w].kind = "fast"
    THEN FastCheck(c, w, Amounts(c.workers[w].local_samples))
    ELSE SlowCheck(c, w, Amounts(c.workers[w].local_samples))

\* The body of a loop iteration of worker w.
BodyStep(c, w) ==
    CheckStep([c EXCEPT !.workers[w].local_samples =
                           Append(@, c.all[c.workers[w].i + 1])], w)

\* The append of a worker's records to final_samples under samples_mutex.
MergeStep(c, w) ==
    [c EXCEPT !.final_samples = @ \o c.workers[w].local_samples,
              !.workers[w].pc = "done"]

\* The systematic pass taken whatever final_samples holds.
TopUpUnconditional(final, all, base_target_count) ==
    final \o StrideTake(all, 0, Max(1, Len(all) \div Max(1, base_target_count \div 4)),
                        base_target_count - Len(final))

\* The systematic pass after the workers: taken when final_samples holds fewer
\* than base_target_count / 4 records, it appends every step-th record from
\* index 0 until base_target_count records are held.
TopUp(final, all, base_target_count) ==
    IF Len(final) < base_target_count \div 4
    THEN final \o StrideTake(all, 0,
                             Max(1, Len(all) \div (base_target_count \div 4)),
                             base_target_count - Len(final))
    ELSE final

----------------------------------------------------------------------------
(* Snapshot I/O *)

\* No snapshot file has been written.
NoFile == [exists |-> FALSE, stored_total |-> 0, stored_height |-> 0, records |-> <<>>]

\* CustomBPlusDB::save_to_file: the header and the records of collect_all_records.
SaveToFileOp(d) ==
    [exists |-> TRUE, stored_total |-> d.total_records, stored_height |-> d.tree_height,
     records |-> CollectAllRecords(d.nodes, d.root)]

\* What std::shared_mutex::lock does when the calling thread already owns the
\* mutex (undefined behaviour): glibc reports EDEADLK and libstdc++ throws
\* std::system_error; other implementations block for ever.
RelockOutcomes == {"system_error", "deadlock"}

\* insert_record called by a thread that may already hold db_mutex exclusively:
\* the unique_lock at its entry is taken first.
LockedInsertRecord(d, rec, caller_holds, relock) ==
    IF caller_holds THEN [db |-> d, result |-> relock]
    ELSE [db |-> InsertRecordOp(d, rec), result |-> "true"]

\* The loop of insert_batch after one insert_record ended as r: it goes on to
\* the records left only when that call returned.
RECURSIVE LockedInsertAll(_, _, _, _)
LockedInsertNext(r, recs, caller_holds, relock) ==
    IF r.result = "true" THEN LockedInsertAll(r.db, recs, caller_holds, relock) ELSE r

\* insert_batch called by a thread that may hold db_mutex, on sorted records.
LockedInsertAll(d, recs, caller_holds, relock) ==
    IF recs = <<>> THEN [db |-> d, result |-> "true"]
    ELSE LockedInsertNext(LockedInsertRecord(d, Head(recs), caller_holds, relock),
                          Tail(recs), caller_holds, relock)

\* CustomBPlusDB::load_from_file: the store afterwards and how the call ended
\* ("true" / "false" returned, or what the relock did).  The unique_lock taken
\* at line 689 is held across the call of insert_batch.
LoadFromFileOp(d, f, relock) ==
    IF ~f.exists THEN [db |-> d, result |-> "false"]
    ELSE LockedInsertAll([d EXCEPT !.nodes = <<NewNode(TRUE)>>, !.root = 1,
                                   !.total_records = 0, !.tree_height = 1],
                         SortById(Range(f.records)), TRUE, relock)

----------------------------------------------------------------------------
(* Initial state: the store as constructed, nothing else started *)

TreeInit ==
    /\ db = FreshDB
    /\ ret = Ret("construct", TRUE, "", 0, <<>>)
    /\ inserted = {}

SnapInit ==
    /\ file = NoFile
    /\ saved_leaf = <<>>
    /\ fresh = FreshDB
    /\ fresh_ret = [result |-> "none", file |-> NoFile]

\* No multithreaded sampler has computed its regions yet.
PartInit == part = [fn |-> "none", total |-> 0, threads |-> 0, regions |-> <<>>]

\* No call of fast_aggregated_memory_stride_sum is running.
AggInit ==
    agg = [phase |-> "idle", p |-> 0, total_sum |-> 0, total_sample_count |-> 0,
           retried |-> FALSE, workers |-> <<>>]

\* The threads that call samplers concurrently.
Callers == {"A", "B"}

\* A caller thread outside any call.
Idle == [op |-> "none", pc |-> "idle", p |-> 0, todo |-> <<>>, acc |-> 0, calls |-> 0]

\* Nobody holds db_mutex and no sampler call is running.
RaceInit ==
    /\ readers = {}
    /\ call = [c \in Callers |-> Idle]

\* No call of clt_validated_dual_pointer_sample is running.
CltInit ==
    clt = [phase |-> "idle", p |-> 0, all |-> <<>>, base_target_count |-> 0,
           check_interval |-> 0, should_stop |-> FALSE,
           current_mean |-> [sum |-> 0, n |-> 1], sample_count |-> 0,
           final_samples |-> <<>>, workers |-> <<>>]

GrpInit ==
    grp = [phase |-> "idle", table |-> <<>>, agg |-> "", p |-> 0, num_threads |-> 0,
           groups |-> <<>>, final |-> {}, mtx |-> 0, workers |-> <<>>]

\* opened: whether the last create_database / open_database returned true.
SchedInit == sched = [db_path_ |-> "", opened |-> FALSE]

\* A worker of signal_based_clt_sample that has not entered its loop.
SignalWorker == [pc |-> "head", i |-> 0, local_samples |-> <<>>]

\* No call of signal_based_clt_sample is running.
SigInit ==
    sig = [phase |-> "idle", p |-> 0, all |-> <<>>, target_count |-> 0, check_interval |-> 0,
           should_stop |-> FALSE, total_samples |-> 0, fast |-> SignalWorker,
           slow |-> SignalWorker, pc |-> "wait_fast", fast_samples |-> <<>>,
           slow_samples |-> <<>>, expired |-> {}, samples |-> <<>>]

Init ==
    /\ TreeInit
    /\ SnapInit
    /\ PartInit
    /\ AggInit
    /\ RaceInit
    /\ CltInit
    /\ GrpInit
    /\ SchedInit
    /\ SigInit

----------------------------------------------------------------------------
(* The tree store under inserts: specification Spec *)

\* The sampling percentages the calls of Spec use.
SpecPercents == {50, 100}

CreateDatabase ==
    /\ db' = CreateDatabaseOp(db, "db")
    /\ ret' = Ret("create_database", TRUE, "", 0, <<>>)
    /\ inserted' = {}
    /\ UNCHANGED otherThanTree

InsertRecord ==
    \E rec \in Records :
        /\ rec.id \notin StoredIds
        /\ db' = InsertRecordOp(db, rec)
        /\ ret' = Ret("insert_record", TRUE, "", 0, <<>>)
        /\ inserted' = inserted \cup {rec}
        /\ UNCHANGED otherThanTree

\* Bound: the number of records of an insert_batch call.
BatchSize == 2

InsertBatch ==
    \E S \in SUBSET Records :
        /\ Cardinality(S) = BatchSize
        /\ \A rec \in S : rec.id \notin StoredIds
        /\ db' = InsertBatchOp(db, S)
        /\ ret' = Ret("insert_batch", TRUE, "", 0, <<>>)
        /\ inserted' = inserted \cup S
        /\ UNCHANGED otherThanTree

\* A sampler call that ended as r = [db, path, samples]: it returned unless
\* the process was killed by a trap.
Sampled(op, p, r) ==
    /\ db' = r.db
    /\ ret' = Ret(op, r.path # "SIGFPE", r.path, p, r.samples)

MemoryStrideSample ==
    \E p \in SpecPercents :
        /\ Sampled("memory_stride_sample", p, MemoryStrideSampleOp(db, p, 0))
        /\ UNCHANGED inserted
        /\ UNCHANGED otherThanTree

Next ==
    \/ CreateDatabase
    \/ InsertRecord
    \/ InsertBatch
    \/ MemoryStrideSample

Spec == Init /\ [][Next]_vars

----------------------------------------------------------------------------
(* Properties of the tree store: specification Spec *)

\* The addresses of the nodes of the subtree at nid.
RECURSIVE SubtreeNodes(_, _)
SubtreeNodes(heap, nid) ==
    IF heap[nid].is_leaf THEN {nid}
    ELSE {nid} \cup UNION {SubtreeNodes(heap, heap[nid].children[c]) :
                             c \in 1..Len(heap[nid].children)}

\* The keys stored in the leaves of the subtree at nid.
SubtreeKeys(heap, nid) == {r.id : r \in Range(GetAllRecords(heap, nid))}

\* C1: after any sequence of insert_record / insert_batch calls with pairwise
\* distinct ids, collect_leaf_records returns every inserted record exactly once,
\* in strictly increasing id order, and its length equals total_records.
C1_LeafChainSorted ==
    /\ \A k \in 1..(Len(LeafSeq) - 1) : LeafSeq[k].id < LeafSeq[k + 1].id
    /\ Len(LeafSeq) = db.total_records
    /\ Range(LeafSeq) = inserted

\* C2: for every internal node and every i < key_count, the separator keys[i] is
\* greater than every key in the subtree children[i] and less than or equal to
\* every key in the subtree children[i+1].
C2_SeparatorOrder ==
    \A nid \in SubtreeNodes(db.nodes, db.root) :
        ~db.nodes[nid].is_leaf =>
            \A i \in 1..db.nodes[nid].key_count :
                /\ \A k \in SubtreeKeys(db.nodes, db.nodes[nid].children[i]) :
                       db.nodes[nid].keys[i] > k
                /\ \A k \in SubtreeKeys(db.nodes, db.nodes[nid].children[i + 1]) :
                       db.nodes[nid].keys[i] <= k

\* C3: whenever a sampler takes its fast path (memory_mapped_ true and
\* cached_records_ non-empty), cached_records_ equals the current leaf sequence.
C3_CacheFreshOnFastPath ==
    (ret.op = "memory_stride_sample" /\ ret.path = "fast") =>
        db.cached_records_ = LeafSeq

----------------------------------------------------------------------------
(* Snapshot round trip: specification SpecSnapshot *)

\* Bound: the snapshot specification inserts ids 1..MaxSnapId.
MaxSnapId == 4

\* insert_record on the store whose snapshot is taken.
SnapInsertRecord ==
    \E rec \in Records :
        /\ rec.id <= MaxSnapId
        /\ rec.id \notin StoredIds
        /\ db' = InsertRecordOp(db, rec)
        /\ ret' = Ret("insert_record", TRUE, "", 0, <<>>)
        /\ inserted' = inserted \cup {rec}
        /\ UNCHANGED snapVars
        /\ UNCHANGED otherThanSnap

\* save_to_file(x) on the store.
SaveToFile ==
    /\ file' = SaveToFileOp(db)
    /\ saved_leaf' = LeafSeq
    /\ ret' = Ret("save_to_file", TRUE, "", 0, <<>>)
    /\ UNCHANGED <<db, inserted, fresh, fresh_ret>>
    /\ UNCHANGED otherThanSnap

\* load_from_file on the second store ended as r.
FreshLoaded(r) ==
    /\ fresh' = r.db
    /\ fresh_ret' = [result |-> r.result, file |-> file]

\* load_from_file(x) on a freshly constructed store.
LoadFromFileFresh ==
    \E relock \in RelockOutcomes :
        /\ FreshLoaded(LoadFromFileOp(FreshDB, file, relock))
        /\ UNCHANGED <<treeVars, file, saved_leaf>>
        /\ UNCHANGED otherThanSnap

\* load_from_file on the store itself ended as r.
Loaded(r) ==
    /\ db' = r.db
    /\ ret' = Ret("load_from_file", r.result = "true", r.result, 0, <<>>)

\* load_from_file(x) on the store itself.
LoadFromFile ==
    \E relock \in RelockOutcomes :
        /\ Loaded(LoadFromFileOp(db, file, relock))
        /\ inserted' = IF file.exists THEN {} ELSE inserted
        /\ UNCHANGED snapVars
        /\ UNCHANGED otherThanSnap

NextSnapshot ==
    \/ SnapInsertRecord
    \/ SaveToFile
    \/ LoadFromFileFresh
    \/ LoadFromFile

SpecSnapshot == Init /\ [][NextSnapshot]_vars

\* The second store has loaded the snapshot file as it stands.
RoundTripDone == file.exists /\ fresh_ret.result # "none" /\ fresh_ret.file = file

\* C4: for a tree holding k >= 0 records, save_to_file(x) followed by
\* load_from_file(x) on a fresh tree terminates, returns true, and leaves the
\* fresh tree with get_total_records() = k and collect_leaf_records() equal to
\* the original tree's leaf sequence sorted by id.
C4_RoundTrip ==
    RoundTripDone =>
        /\ fresh_ret.result = "true"
        /\ fresh.total_records = Len(saved_leaf)
        /\ LeafSeqOf(fresh) = SortById(Range(saved_leaf))

\* The round trip of an empty tree, the one case in which load_from_file returns.
C4_EmptyRoundTrip ==
    (RoundTripDone /\ saved_leaf = <<>>) =>
        /\ fresh_ret.result = "true"
        /\ fresh.total_records = 0
        /\ LeafSeqOf(fresh) = <<>>

----------------------------------------------------------------------------
(* The sampling library on a loaded store: specification SpecSamplers *)

\* Bound: the sampler specification loads ids 1..MaxSampleId in order.
MaxSampleId == 10

\* The percentages the sampler calls are made with.
SamplerPercents == {25, 50, 100, 150}

\* The worker counts the multithreaded calls are made with.
SamplerThreads == {1, 2, 4}

\* Bound: the draws of random_start_dist are offsets 0..MaxPick (clipped to the
\* distribution's range).
MaxPick == 1

\* insert_record of the next id.
SamplerLoad ==
    /\ db.total_records < MaxSampleId
    /\ db' = InsertRecordOp(db, MkRecord(db.total_records + 1))
    /\ ret' = Ret("insert_record", TRUE, "", 0, <<>>)
    /\ inserted' = inserted \cup {MkRecord(db.total_records + 1)}
    /\ UNCHANGED otherThanTree

SlowPointerSample ==
    \E p \in SamplerPercents :
        /\ Sampled("slow_pointer_sample", p, SlowPointerSampleOp(db, p))
        /\ UNCHANGED inserted
        /\ UNCHANGED otherThanTree

FastPointerSample ==
    \E p \in SamplerPercents :
        /\ Sampled("fast_pointer_sample", p, FastPointerSampleOp(db, p, 2))
        /\ UNCHANGED inserted
        /\ UNCHANGED otherThanTree

DualPointerSample ==
    \E p \in SamplerPercents, div0 \in DivByZeroOutcomes :
        /\ Sampled("dual_pointer_sample", p, DualPointerSampleOp(db, p, div0))
        /\ UNCHANGED inserted
        /\ UNCHANGED otherThanTree

BlockSample ==
    \E p \in SamplerPercents, block_size \in {2, 1000}, cast \in CastOutcomes :
        /\ Sampled("block_sample", p, BlockSampleOp(db, p, block_size, cast))
        /\ UNCHANGED inserted
        /\ UNCHANGED otherThanTree

PageSample ==
    \E p \in SamplerPercents, page_size \in {64, 4096}, cast \in CastOutcomes :
        /\ Sampled("page_sample", p, PageSampleOp(db, p, page_size, cast))
        /\ UNCHANGED inserted
        /\ UNCHANGED otherThanTree

IndexBasedSample ==
    \E p \in SamplerPercents :
        /\ Sampled("index_based_sample", p, IndexBasedSampleOp(db, p))
        /\ UNCHANGED inserted
        /\ UNCHANGED otherThanTree

NodeSkipSample ==
    \E p \in SamplerPercents :
        /\ Sampled("node_skip_sample", p, NodeSkipSampleOp(db, p, 2))
        /\ UNCHANGED inserted
        /\ UNCHANGED otherThanTree

BalancedTreeSample ==
    \E p \in SamplerPercents :
        /\ Sampled("balanced_tree_sample", p, BalancedTreeSampleOp(db, p))
        /\ UNCHANGED inserted
        /\ UNCHANGED otherThanTree

StrideSample ==
    \E p \in SamplerPercents :
        /\ Sampled("memory_stride_sample", p, MemoryStrideSampleOp(db, p, 0))
        /\ UNCHANGED inserted
        /\ UNCHANGED otherThanTree

OptimizedSequentialSample ==
    \E p \in SamplerPercents, u \in {0, 50, 99} :
        /\ Sampled("optimized_sequential_sample", p,
                    OptimizedSequentialSampleOp(db, p, u))
        /\ UNCHANGED inserted
        /\ UNCHANGED otherThanTree

SampleRecords ==
    \E p \in SamplerPercents :
        \E shuffled \in Shuffles(CollectAllRecords(db.nodes, db.root)) :
            /\ Sampled("sample_records", p, SampleRecordsOp(db, p, shuffled))
            /\ UNCHANGED inserted
            /\ UNCHANGED otherThanTree

MultithreadedMemoryStrideSample ==
    \E p \in SamplerPercents, num_threads \in SamplerThreads :
        \E picks \in [1..num_threads -> 0..MaxPick] :
            /\ Sampled("multithreaded_memory_stride_sample", p,
                        MultithreadedMemoryStrideSampleOp(db, p, num_threads, picks))
            /\ UNCHANGED inserted
            /\ UNCHANGED otherThanTree

OptimizedCltSample ==
    \E p \in SamplerPercents, num_threads \in SamplerThreads :
        /\ Sampled("optimized_clt_sample", p, OptimizedCltSampleOp(db, p, num_threads))
        /\ UNCHANGED inserted
        /\ UNCHANGED otherThanTree

NextSamplers ==
    \/ SamplerLoad
    \/ SlowPointerSample
    \/ FastPointerSample
    \/ DualPointerSample
    \/ BlockSample
    \/ PageSample
    \/ IndexBasedSample
    \/ NodeSkipSample
    \/ BalancedTreeSample
    \/ StrideSample
    \/ OptimizedSequentialSample
    \/ SampleRecords
    \/ MultithreadedMemoryStrideSample
    \/ OptimizedCltSample

SpecSamplers == Init /\ [][NextSamplers]_vars

\* The single-threaded samplers the bound of target records is stated for.
SingleThreadedSamplers ==
    {"slow_pointer_sample", "fast_pointer_sample", "dual_pointer_sample",
     "block_sample", "page_sample", "index_based_sample", "node_skip_sample",
     "balanced_tree_sample", "memory_stride_sample"}

\* C9: for every N >= 0 and 0 < p < 100, slow_pointer_sample,
\* fast_pointer_sample, dual_pointer_sample, block_sample, page_sample,
\* index_based_sample, node_skip_sample, balanced_tree_sample and
\* memory_stride_sample terminate and return at most floor(N * p / 100) records.
C9_SingleThreadedBound ==
    (ret.op \in SingleThreadedSamplers /\ ret.p > 0 /\ ret.p < 100) =>
        /\ ret.ok
        /\ Len(ret.value) <= (Len(LeafSeq) * ret.p) \div 100

\* The samplers of the library that are modelled.
LibrarySamplers ==
    SingleThreadedSamplers \cup
        {"optimized_sequential_sample", "sample_records",
         "multithreaded_memory_stride_sample", "optimized_clt_sample"}

\* C10: for a requested percentage p >= 100 every sampler returns all N
\* records: |S| = N and S equals the leaf sequence as a multiset.
C10_FullPercentReturnsAll ==
    (ret.op \in LibrarySamplers /\ ret.p >= 100) =>
        /\ Len(ret.value) = Len(LeafSeq)
        /\ Range(ret.value) = Range(LeafSeq)

----------------------------------------------------------------------------
(* Worker regions: specification SpecPartition *)

\* Bound: the record vector has 1..MaxRows rows.
MaxRows == 9

\* Bound: a call is made with 1..MaxWorkers workers.
MaxWorkers == 4

\* The regions the workers of a call compute, worker by worker.
Partitioned(fn, total, threads, regions) ==
    part' = [fn |-> fn, total |-> total, threads |-> threads, regions |-> regions]

\* The regions of multithreaded_memory_stride_sample over total_rows rows.
PartitionStride ==
    \E total_rows \in 1..MaxRows, num_threads \in 1..MaxWorkers :
        /\ Partitioned("multithreaded_memory_stride_sample", total_rows, num_threads,
                       [w \in 1..num_threads |->
                          StrideRegion(w - 1, total_rows, num_threads)])
        /\ UNCHANGED otherThanPart

\* The regions of fast_aggregated_memory_stride_sum over total_rows rows.
PartitionAggregate ==
    \E total_rows \in 1..MaxRows, num_threads \in 1..MaxWorkers :
        /\ Partitioned("fast_aggregated_memory_stride_sum", total_rows, num_threads,
                       [w \in 1..num_threads |->
                          StrideRegion(w - 1, total_rows, num_threads)])
        /\ UNCHANGED otherThanPart

\* The ranges of optimized_clt_sample over total_records records.
PartitionClt ==
    \E total_records \in 1..MaxRows, optimal_threads \in 1..MaxWorkers :
        /\ Partitioned("optimized_clt_sample", total_records, optimal_threads,
                       [w \in 1..optimal_threads |->
                          CltRegion(w - 1, total_records, optimal_threads)])
        /\ UNCHANGED otherThanPart

NextPartition ==
    \/ PartitionStride
    \/ PartitionAggregate
    \/ PartitionClt

SpecPartition == Init /\ [][NextPartition]_vars

\* No index lies in the regions of two workers.
RegionsDisjoint ==
    \A v, w \in 1..part.threads :
        v # w => Indices(part.regions[v]) \cap Indices(part.regions[w]) = {}

\* Every index of [0, N) lies in some worker's region, and no other index does.
RegionsCover ==
    UNION {Indices(part.regions[w]) : w \in 1..part.threads} = 0..(part.total - 1)

\* C6: for every N >= 1 and T >= 1 the index ranges assigned to the T workers
\* of multithreaded_memory_stride_sample, fast_aggregated_memory_stride_sum and
\* optimized_clt_sample are pairwise disjoint and their union is exactly [0, N).
C6_RegionsPartition ==
    part.fn # "none" => (RegionsDisjoint /\ RegionsCover)

----------------------------------------------------------------------------
(* Direct aggregation: specification SpecAggregate *)

\* Bound: the aggregation specification loads ids 1..MaxAggId in order.
MaxAggId == 12

\* The percentages and worker counts of the aggregation calls.
AggPercents == {50, 100}

AggThreads == {1, 2, 3}

\* insert_record of the next id; the exclusive lock waits for a running call.
AggLoad ==
    /\ agg.phase # "running"
    /\ db.total_records < MaxAggId
    /\ db' = InsertRecordOp(db, MkRecord(db.total_records + 1))
    /\ ret' = Ret("insert_record", TRUE, "", 0, <<>>)
    /\ inserted' = inserted \cup {MkRecord(db.total_records + 1)}
    /\ UNCHANGED agg
    /\ UNCHANGED otherThanAgg

\* fast_aggregated_memory_stride_sum up to the launch of its workers: the
\* cache is filled if need be; on an empty cache the call returns 0.0.
AggregateBegin ==
    \E p \in AggPercents, num_threads \in AggThreads :
        \E picks \in [1..num_threads -> 0..MaxPick] :
            /\ agg.phase # "running"
            /\ db.root # NULL
            /\ db' = EnsureCache(db)
            /\ IF db'.cached_records_ = <<>>
               THEN /\ ret' = Ret("fast_aggregated_memory_stride_sum", TRUE, "", p, 0)
                    /\ agg' = [agg EXCEPT !.phase = "idle"]
               ELSE /\ ret' = Ret("fast_aggregated_memory_stride_sum", FALSE, "running", p, 0)
                    /\ agg' = [phase |-> "running", p |-> p, total_sum |-> 0,
                               total_sample_count |-> 0, retried |-> FALSE,
                               workers |-> AggWorkers(db'.cached_records_, p,
                                                      num_threads, picks)]
            /\ UNCHANGED inserted
            /\ UNCHANGED otherThanAgg

\* double current_sum = total_sum.load()
WorkerLoad ==
    \E w \in 1..Len(agg.workers) :
        /\ agg.phase = "running"
        /\ agg.workers[w].pc = "load"
        /\ agg' = [agg EXCEPT !.workers[w].current_sum = agg.total_sum,
                              !.workers[w].pc = "cas"]
        /\ UNCHANGED treeVars
        /\ UNCHANGED otherThanAgg

\* One iteration of the compare_exchange_weak loop.
WorkerCas ==
    \E w \in 1..Len(agg.workers) :
        /\ agg.phase = "running"
        /\ agg.workers[w].pc = "cas"
        /\ agg' = CasStep(agg, w)
        /\ UNCHANGED treeVars
        /\ UNCHANGED otherThanAgg

\* compare_exchange_weak failing spuriously: the values match, nothing is
\* stored and the loop retries.
WorkerCasSpurious ==
    \E w \in 1..Len(agg.workers) :
        /\ agg.phase = "running"
        /\ agg.workers[w].pc = "cas"
        /\ CasMatches(agg.total_sum, agg.workers[w].current_sum)
        /\ agg' = [agg EXCEPT !.retried = TRUE]
        /\ UNCHANGED treeVars
        /\ UNCHANGED otherThanAgg

\* total_sample_count.fetch_add(thread_sample_count), the worker's last step.
WorkerFetchAdd ==
    \E w \in 1..Len(agg.workers) :
        /\ agg.phase = "running"
        /\ agg.workers[w].pc = "fetch_add"
        /\ agg' = [agg EXCEPT !.total_sample_count = @ + agg.workers[w].thread_sample_count,
                              !.workers[w].pc = "done"]
        /\ UNCHANGED treeVars
        /\ UNCHANGED otherThanAgg

\* Every future has been waited for: the call returns.
AggregateReturn ==
    /\ agg.phase = "running"
    /\ \A w \in 1..Len(agg.workers) : agg.workers[w].pc = "done"
    /\ agg' = [agg EXCEPT !.phase = "returned"]
    /\ ret' = Ret("fast_aggregated_memory_stride_sum", TRUE, "", agg.p, AggResult(agg))
    /\ UNCHANGED <<db, inserted>>
    /\ UNCHANGED otherThanAgg

NextAggregate ==
    \/ AggLoad
    \/ AggregateBegin
    \/ WorkerLoad
    \/ WorkerCas
    \/ WorkerCasSpurious
    \/ WorkerFetchAdd
    \/ AggregateReturn

SpecAggregate == Init /\ [][NextAggregate]_vars

\* The workers' local sums and local counts, added up.
LocalSums == SumSeq([w \in 1..Len(agg.workers) |-> agg.workers[w].thread_sum])

LocalCounts == SumSeq([w \in 1..Len(agg.workers) |-> agg.workers[w].thread_sample_count])

\* C7: under every interleaving of the workers' load / compare-and-swap retry
\* loops and fetch-adds, once all workers have been joined the shared sum equals
\* the sum of the workers' local sums and the shared count equals the sum of
\* their local counts; the returned scalar is that sum (0 when the count is 0).
C7_AggregationComplete ==
    agg.phase = "returned" =>
        /\ agg.total_sum = LocalSums
        /\ agg.total_sample_count = LocalCounts
        /\ ret.op = "fast_aggregated_memory_stride_sum" =>
               ret.value = (IF LocalCounts > 0 THEN LocalSums ELSE 0)

\* A call has returned in which three workers contributed and a
\* compare-and-swap had to be retried.
C7_Witness ==
    /\ agg.phase = "returned"
    /\ agg.retried
    /\ Cardinality({w \in 1..Len(agg.workers) : agg.workers[w].thread_sample_count > 0}) = 3
    /\ ret.op = "fast_aggregated_memory_stride_sum"
    /\ ret.value = LocalSums
    /\ LocalSums > 0

----------------------------------------------------------------------------
(* Samplers called concurrently under the shared lock: specification SpecReaders *)

\* Bound: the concurrent-readers specification loads ids 1..MaxRaceId in order.
MaxRaceId == 3

\* The percentage and the worker count of the concurrent sampler calls.
RacePercents == {50}

RaceThreads == {2}

\* Bound: the number of sampler calls a caller thread makes.
MaxCalls == 2

\* insert_record of the next id: the exclusive lock is granted when no reader
\* holds the shared lock.
ReaderLoad ==
    /\ readers = {}
    /\ db.total_records < MaxRaceId
    /\ db' = InsertRecordOp(db, MkRecord(db.total_records + 1))
    /\ ret' = Ret("insert_record", TRUE, "", 0, <<>>)
    /\ inserted' = inserted \cup {MkRecord(db.total_records + 1)}
    /\ UNCHANGED raceVars
    /\ UNCHANGED otherThanRace

\* index_based_sample up to root->update_subtree_counts(): the shared lock is
\* taken (0 < p < 100 and the root exists, so neither early return is taken).
BeginIndexBasedSample ==
    \E c \in Callers, p \in RacePercents :
        /\ call[c].pc = "idle"
        /\ call[c].calls < MaxCalls
        /\ readers' = readers \cup {c}
        /\ call' = [call EXCEPT ![c] = [op |-> "index_based_sample", pc |-> "update_counts",
                                        p |-> p, todo |-> UpdateSteps(db.nodes, db.root),
                                        acc |-> 0, calls |-> call[c].calls + 1]]
        /\ UNCHANGED treeVars
        /\ UNCHANGED otherThanRace

\* One store or load of update_subtree_counts by a caller.
UpdateCountsStep ==
    \E c \in Callers :
        /\ call[c].pc = "update_counts"
        /\ db' = [db EXCEPT !.nodes = ApplyStep(db.nodes, Head(call[c].todo), call[c].acc)]
        /\ call' = [call EXCEPT
                      ![c].acc = IF Head(call[c].todo).k = "load"
                                 THEN LoadStep(db.nodes, Head(call[c].todo)) ELSE @,
                      ![c].todo = Tail(@),
                      ![c].pc = IF Tail(call[c].todo) = <<>> THEN "sample" ELSE @]
        /\ UNCHANGED <<ret, inserted, readers>>
        /\ UNCHANGED otherThanRace

\* index_based_sample from the read of root->subtree_record_count to its
\* return, which releases the shared lock.
IndexBasedReturn ==
    \E c \in Callers :
        /\ call[c].pc = "sample"
        /\ call[c].op = "index_based_sample"
        /\ Sampled("index_based_sample", call[c].p, IndexBasedBody(db, call[c].p))
        /\ readers' = readers \ {c}
        /\ call' = [call EXCEPT ![c] = [Idle EXCEPT !.calls = call[c].calls]]
        /\ UNCHANGED inserted
        /\ UNCHANGED otherThanRace

\* multithreaded_memory_stride_sample takes the shared lock.
BeginMultithreadedSample ==
    \E c \in Callers, p \in RacePercents :
        /\ call[c].pc = "idle"
        /\ call[c].calls < MaxCalls
        /\ db.root # NULL
        /\ readers' = readers \cup {c}
        /\ call' = [call EXCEPT ![c] = [op |-> "multithreaded_memory_stride_sample",
                                        pc |-> "check_cache", p |-> p, todo |-> <<>>,
                                        acc |-> 0, calls |-> call[c].calls + 1]]
        /\ UNCHANGED treeVars
        /\ UNCHANGED otherThanRace

\* if (!memory_mapped_ || cached_records_.empty())
CheckCache ==
    \E c \in Callers :
        /\ call[c].pc = "check_cache"
        /\ call' = [call EXCEPT ![c].pc = IF ~db.memory_mapped_ \/ db.cached_records_ = <<>>
                                          THEN "fill_cache" ELSE "sample"]
        /\ UNCHANGED <<treeVars, readers>>
        /\ UNCHANGED otherThanRace

\* cached_records_ = collect_leaf_records()
FillCache ==
    \E c \in Callers :
        /\ call[c].pc = "fill_cache"
        /\ db' = [db EXCEPT !.cached_records_ = LeafSeqOf(db)]
        /\ call' = [call EXCEPT ![c].pc = "set_mapped"]
        /\ UNCHANGED <<ret, inserted, readers>>
        /\ UNCHANGED otherThanRace

\* memory_mapped_ = true
SetMapped ==
    \E c \in Callers :
        /\ call[c].pc = "set_mapped"
        /\ db' = [db EXCEPT !.memory_mapped_ = TRUE]
        /\ call' = [call EXCEPT ![c].pc = "sample"]
        /\ UNCHANGED <<ret, inserted, readers>>
        /\ UNCHANGED otherThanRace

\* multithreaded_memory_stride_sample from the launch of its workers to its
\* return, which releases the shared lock.
MultithreadedReturn ==
    \E c \in Callers, num_threads \in RaceThreads :
        /\ call[c].pc = "sample"
        /\ call[c].op = "multithreaded_memory_stride_sample"
        /\ Sampled("multithreaded_memory_stride_sample", call[c].p,
                   MultithreadedFrom(db, call[c].p, num_threads,
                                     [w \in 1..num_threads |-> 0]))
        /\ readers' = readers \ {c}
        /\ call' = [call EXCEPT ![c] = [Idle EXCEPT !.calls = call[c].calls]]
        /\ UNCHANGED inserted
        /\ UNCHANGED otherThanRace

NextReaders ==
    \/ ReaderLoad
    \/ BeginIndexBasedSample
    \/ UpdateCountsStep
    \/ IndexBasedReturn
    \/ BeginMultithreadedSample
    \/ CheckCache
    \/ FillCache
    \/ SetMapped
    \/ MultithreadedReturn

SpecReaders == Init /\ [][NextReaders]_vars

\* An access to a non-atomic location of the store.
Access(loc, write) == [loc |-> loc, write |-> write]

\* The accesses of a step of update_subtree_counts.
StepAccesses(st) ==
    IF st.k = "load"
    THEN {Access(<<"subtree_record_count", st.node>>, FALSE),
          Access(<<"subtree_record_count", st.child>>, FALSE)}
    ELSE {Access(<<"subtree_record_count", st.node>>, TRUE)}

\* The accesses to non-atomic locations a caller's next step performs.
NextAccesses(c) ==
    IF call[c].pc = "update_counts" THEN StepAccesses(Head(call[c].todo))
    ELSE IF call[c].pc = "check_cache"
    THEN {Access(<<"memory_mapped_">>, FALSE), Access(<<"cached_records_">>, FALSE)}
    ELSE IF call[c].pc = "fill_cache" THEN {Access(<<"cached_records_">>, TRUE)}
    ELSE IF call[c].pc = "set_mapped" THEN {Access(<<"memory_mapped_">>, TRUE)}
    ELSE IF call[c].pc = "sample" /\ call[c].op = "index_based_sample"
    THEN {Access(<<"subtree_record_count", db.root>>, FALSE)}
    ELSE IF call[c].pc = "sample" THEN {Access(<<"cached_records_">>, FALSE)}
    ELSE {}

\* Two accesses to the same location, one of them a write.
Conflict(a, b) == a.loc = b.loc /\ (a.write \/ b.write)

\* C5: no sampler running under the shared lock writes a node's
\* subtree_record_count, cached_records_ or memory_mapped_, so two sampler calls
\* running concurrently on the same store (both holding the shared lock) never
\* perform conflicting accesses to the same non-atomic location.
C5_NoConflictingAccess ==
    \A c1, c2 \in readers :
        c1 # c2 => \A a \in NextAccesses(c1), b \in NextAccesses(c2) : ~Conflict(a, b)

----------------------------------------------------------------------------
(* The CLT-validated controller: specification SpecClt *)

\* Bound: the controller specification loads ids 1..MaxCltId in order.
MaxCltId == 12

\* The arguments of the controller calls.
CltPercents == {25, 50}

CltThreads == {1, 2, 3}

CltIntervals == {2, 3}

\* insert_record of the next id; the exclusive lock waits for a running call.
CltLoad ==
    /\ clt.phase # "running"
    /\ db.total_records < MaxCltId
    /\ db' = InsertRecordOp(db, MkRecord(db.total_records + 1))
    /\ ret' = Ret("insert_record", TRUE, "", 0, <<>>)
    /\ inserted' = inserted \cup {MkRecord(db.total_records + 1)}
    /\ UNCHANGED clt
    /\ UNCHANGED otherThanClt

\* The state of a call whose workers have been launched.
Launched(p, all, base_target_count, check_interval, num_threads) ==
    [phase |-> "running", p |-> p, all |-> all,
     base_target_count |-> base_target_count, check_interval |-> check_interval,
     should_stop |-> FALSE, current_mean |-> [sum |-> 0, n |-> 1], sample_count |-> 0,
     final_samples |-> <<>>,
     workers |-> CltWorkers(Len(all), base_target_count, num_threads)]

\* clt_validated_dual_pointer_sample up to the launch of its workers: it
\* returns {} on an empty store or a zero target, and is killed when a worker's
\* step computation traps.
CltBegin ==
    \E p \in CltPercents, num_threads \in CltThreads, check_interval \in CltIntervals,
       div0 \in DivByZeroOutcomes :
        /\ clt.phase # "running"
        /\ IF LeafSeq = <<>> \/ Target(Len(LeafSeq), p) = 0
           THEN /\ ret' = Ret("clt_validated_dual_pointer_sample", TRUE, "", p, <<>>)
                /\ clt' = [clt EXCEPT !.phase = "idle"]
           ELSE IF CltDividesByZero(Target(Len(LeafSeq), p), num_threads) /\ div0 = "trap"
           THEN /\ ret' = Ret("clt_validated_dual_pointer_sample", FALSE, "SIGFPE", p, <<>>)
                /\ clt' = [clt EXCEPT !.phase = "idle"]
           ELSE /\ ret' = Ret("clt_validated_dual_pointer_sample", FALSE, "running", p, <<>>)
                /\ clt' = Launched(p, LeafSeq, Target(Len(LeafSeq), p), check_interval,
                                   num_threads)
        /\ UNCHANGED <<db, inserted>>
        /\ UNCHANGED otherThanClt

\* A worker tests its loop condition.
CltWorkerHead ==
    \E w \in 1..Len(clt.workers) :
        /\ clt.phase = "running"
        /\ clt.workers[w].pc = "head"
        /\ clt' = HeadStep(clt, w)
        /\ UNCHANGED treeVars
        /\ UNCHANGED otherThanClt

\* A worker pushes the record at i and runs its convergence test.
CltWorkerBody ==
    \E w \in 1..Len(clt.workers) :
        /\ clt.phase = "running"
        /\ clt.workers[w].pc = "body"
        /\ clt' = BodyStep(clt, w)
        /\ UNCHANGED treeVars
        /\ UNCHANGED otherThanClt

\* A worker appends its records to final_samples and ends.
CltWorkerMerge ==
    \E w \in 1..Len(clt.workers) :
        /\ clt.phase = "running"
        /\ clt.workers[w].pc = "merge"
        /\ clt' = MergeStep(clt, w)
        /\ UNCHANGED treeVars
        /\ UNCHANGED otherThanClt

\* Every future has been waited for: the top-up pass, then the return.
CltReturn ==
    /\ clt.phase = "running"
    /\ \A w \in 1..Len(clt.workers) : clt.workers[w].pc = "done"
    /\ clt' = [clt EXCEPT !.phase = "returned",
                          !.final_samples = TopUp(@, clt.all, clt.base_target_count)]
    /\ ret' = Ret("clt_validated_dual_pointer_sample", TRUE, "", clt.p, clt'.final_samples)
    /\ UNCHANGED <<db, inserted>>
    /\ UNCHANGED otherThanClt

NextClt ==
    \/ CltLoad
    \/ CltBegin
    \/ CltWorkerHead
    \/ CltWorkerBody
    \/ CltWorkerMerge
    \/ CltReturn

SpecClt == Init /\ [][NextClt]_vars

\* ceil(N * p / 100) + 1
SizeBound(n, p) == (n * p + 99) \div 100 + 1

\* C8: for every N >= 1, 0 < p < 100, T >= 1 and every interleaving and
\* early-stop timing, the merged result of a concurrent controller (fast workers
\* plus slow workers plus any top-up pass) has at most ceil(N * p / 100) + 1
\* records.
C8_ControllerBound ==
    (ret.op = "clt_validated_dual_pointer_sample" /\ ret.ok /\ ret.p > 0 /\ ret.p < 100) =>
        Len(ret.value) <= SizeBound(Len(LeafSeq), ret.p)

----------------------------------------------------------------------------
(* Non-positive percentages: specification SpecNonPositive *)

\* The percentages of the calls: zero, a negative one whose target truncates to
\* zero, and a negative one whose target is negative.
NonPositivePercents == {0, -5, -50}

\* The seeds random_pointer_sample is called with.
Seeds == {7, 42}

SlowPointerSampleNonPositive ==
    \E p \in NonPositivePercents :
        /\ Sampled("slow_pointer_sample", p, SlowPointerSampleOp(db, p))
        /\ UNCHANGED inserted
        /\ UNCHANGED otherThanTree

FastPointerSampleNonPositive ==
    \E p \in NonPositivePercents :
        /\ Sampled("fast_pointer_sample", p, FastPointerSampleOp(db, p, 2))
        /\ UNCHANGED inserted
        /\ UNCHANGED otherThanTree

BlockSampleNonPositive ==
    \E p \in NonPositivePercents, block_size \in {2, 1000}, cast \in CastOutcomes :
        /\ Sampled("block_sample", p, BlockSampleOp(db, p, block_size, cast))
        /\ UNCHANGED inserted
        /\ UNCHANGED otherThanTree

RandomPointerSampleNonPositive ==
    \E p \in NonPositivePercents, seed \in Seeds :
        /\ Sampled("random_pointer_sample", p, RandomPointerSampleOp(db, p, seed))
        /\ UNCHANGED inserted
        /\ UNCHANGED otherThanTree

NextNonPositive ==
    \/ SamplerLoad
    \/ SlowPointerSampleNonPositive
    \/ FastPointerSampleNonPositive
    \/ BlockSampleNonPositive
    \/ RandomPointerSampleNonPositive

SpecNonPositive == Init /\ [][NextNonPositive]_vars

\* The samplers whose target_count is a signed int compared with samples.size().
SignedTargetSamplers ==
    {"slow_pointer_sample", "fast_pointer_sample", "block_sample", "random_pointer_sample"}

\* C11: for a requested percentage p <= 0 (zero and every negative value) on a
\* tree with N >= 1 records, slow_pointer_sample, fast_pointer_sample,
\* block_sample and random_pointer_sample return an empty sequence: a negative
\* target does not let the loop emit records.
C11_NonPositiveReturnsEmpty ==
    (ret.op \in SignedTargetSamplers /\ ret.p <= 0 /\ Len(LeafSeq) >= 1) =>
        ret.value = <<>>

----------------------------------------------------------------------------
(* The sampling rate of the multithreaded stride samplers: specification SpecAggregate *)

\* C12: multithreaded stride sampling draws at the nominal rate p whatever the
\* worker count: for N records, rate p and T >= 1 workers, the number of records
\* aggregated by fast_aggregated_memory_stride_sum (over an up-to-date cache)
\* differs from floor(N * p / 100) by at most T.
C12_NominalRate ==
    (agg.phase = "returned" /\ ret.op = "fast_aggregated_memory_stride_sum"
        /\ db.cached_records_ = LeafSeq) =>
        Dist(agg.total_sample_count, (Len(LeafSeq) * agg.p) \div 100) <= Len(agg.workers)

----------------------------------------------------------------------------
(* The zero-sample fallback: specification SpecSamplers *)

\* C13: for N >= 1 and a global target floor(N * p / 100) >= 1, whenever the
\* merged sample of the workers of multithreaded_memory_stride_sample (over an
\* up-to-date cache) is empty, the controller falls back to a single-threaded
\* systematic pass, so the value it returns is non-empty.
C13_ZeroSampleFallback ==
    (ret.op = "multithreaded_memory_stride_sample" /\ ret.p > 0
        /\ db.cached_records_ = LeafSeq /\ (Len(LeafSeq) * ret.p) \div 100 >= 1) =>
        ret.value # <<>>

----------------------------------------------------------------------------
(* The aggregates of the store and the scheduler facade *)

RECURSIVE Gcd(_, _)
Gcd(a, b) == IF b = 0 THEN a ELSE Gcd(b, a % b)

\* The magnitude of an integer.
Magnitude(x) == IF x < 0 THEN -x ELSE x

\* A double that is a ratio of two integers (den # 0), kept exact: lowest
\* terms, positive denominator.  The amounts of the model are integers and the
\* percentages divide without rounding at the sizes it reaches.
Frac(num, den) ==
    [num |-> ((IF den < 0 THEN -num ELSE num) \div Gcd(Magnitude(num), Magnitude(den))),
     den |-> (Magnitude(den) \div Gcd(Magnitude(num), Magnitude(den)))]

\* The double 0.0.
Zero == Frac(0, 1)

\* CustomBPlusDB::sum_amount
SumAmountOp(d) == Frac(SumSeq(Amounts(CollectAllRecords(d.nodes, d.root))), 1)

\* CustomBPlusDB::avg_amount
AvgAmountOp(d) ==
    IF d.total_records > 0
    THEN Frac(SumSeq(Amounts(CollectAllRecords(d.nodes, d.root))), d.total_records)
    ELSE Zero

\* CustomBPlusDB::count_records
CountRecordsOp(d) == d.total_records

\* What sample_records(p) can return: one prefix per order std::shuffle can
\* leave, and for a negative p both outcomes of the out-of-range conversion of
\* the sample size to size_t (all the records, or none).
SampleRecordsOutcomes(d, p) ==
    {SampleRecordsOp(d, p, shuffled).samples :
        shuffled \in Shuffles(CollectAllRecords(d.nodes, d.root))}
    \cup (IF Target(d.total_records, p) < 0 THEN {<<>>} ELSE {})

\* partitions[i % num_threads].push_back(records[i]), num_threads >= 1:
\* partition t (0-based) receives the records at the indices i with
\* i % num_threads = t.
RECURSIVE PartitionOf(_, _, _, _)
PartitionOf(records, i, t, num_threads) ==
    IF i >= Len(records) THEN <<>>
    ELSE (IF i % num_threads = t THEN <<records[i + 1]>> ELSE <<>>)
         \o PartitionOf(records, i + 1, t, num_threads)

\* CustomBPlusDB::partition_records_for_threads (num_threads >= 1)
PartitionRecordsForThreads(records, num_threads) ==
    [t \in 1..num_threads |-> PartitionOf(records, 0, t - 1, num_threads)]

\* The pair extract_where_conditions returns when the query has no WHERE.
NoWhere == <<-1, -1>>

\* The loop of one async task: the sum of the amounts of its partition, of
\* those within where[1] .. where[2] when a range is given.
RECURSIVE ThreadSum(_, _)
ThreadSum(partition, where) ==
    IF partition = <<>> THEN 0
    ELSE (IF where = NoWhere
             \/ (Head(partition).amount >= where[1] /\ Head(partition).amount <= where[2])
          THEN Head(partition).amount ELSE 0)
         + ThreadSum(Tail(partition), where)

\* total_sum += future.get() over the partitions.
TotalSum(partitions, where) ==
    SumSeq([t \in 1..Len(partitions) |-> ThreadSum(partitions[t], where)])

\* How a call of the store ended and the double it returned.
Outcome(path, value) == [path |-> path, value |-> value]

\* parallel_sum_sample / parallel_sum_where_sample once sample_records returned
\* sampled_records.  partitions(num_threads) throws std::length_error for a
\* negative num_threads; i % num_threads with num_threads = 0 is undefined
\* behaviour: a trap, or the index i into an empty vector.
ParallelSumFrom(sampled_records, where, p, num_threads, div0) ==
    IF sampled_records = <<>> THEN Outcome("returned", Zero)
    ELSE IF num_threads < 0 THEN Outcome("std::length_error", Zero)
    ELSE IF num_threads = 0
    THEN Outcome(IF div0 = "trap" THEN "SIGFPE" ELSE "SIGSEGV", Zero)
    ELSE Outcome("returned",
                 Frac(TotalSum(PartitionRecordsForThreads(sampled_records, num_threads),
                               where) * 100, p))

\* CustomBPlusDB::parallel_sum_sample
ParallelSumSampleOp(sampled_records, p, num_threads, div0) ==
    ParallelSumFrom(sampled_records, NoWhere, p, num_threads, div0)

\* CustomBPlusDB::parallel_sum_where_sample
ParallelSumWhereSampleOp(sampled_records, where, p, num_threads, div0) ==
    ParallelSumFrom(sampled_records, where, p, num_threads, div0)

\* return total > 0 ? sum / total : 0.0, sum being what parallel_sum_sample
\* returned.
AvgOfSum(sum, total) ==
    IF sum.path # "returned" THEN sum
    ELSE IF total > 0 THEN Outcome("returned", Frac(sum.value.num, sum.value.den * total))
    ELSE Outcome("returned", Zero)

\* CustomBPlusDB::parallel_avg_sample
ParallelAvgSampleOp(d, sampled_records, p, num_threads, div0) ==
    AvgOfSum(ParallelSumSampleOp(sampled_records, p, num_threads, div0), d.total_records)

\* static_cast<size_t>(size * (100.0 / p)).  The product is NaN for p = 0 and
\* negative for p < 0 and size > 0: the conversion is then undefined behaviour,
\* and yields the bit pattern of the signed conversion or 0.
ScaledCount(size, p, cast) ==
    IF p = 0 THEN (IF cast = "wrap" THEN 2 ^ (SIZE_T_BITS - 1) ELSE 0)
    ELSE IF p > 0 THEN (size * 100) \div p
    ELSE IF (size * 100) \div (-p) = 0 THEN 0
    ELSE IF cast = "wrap" THEN ToSizeT(-((size * 100) \div (-p))) ELSE 0

\* CustomBPlusDB::parallel_count_sample
ParallelCountSampleOp(sampled_records, p, cast) ==
    Outcome("returned", Frac(ScaledCount(Len(sampled_records), p, cast), 1))

\* CustomValidationResult, reduced to value and status.
ValidationResult(value, status) == [value |-> value, status |-> status]

\* The try / catch of the execute_* functions around a call that ended as
\* outcome: STABLE when it returned, ERROR with value 0 when it threw a
\* std::exception.
Caught(outcome) ==
    IF outcome.path = "returned" THEN ValidationResult(outcome.value, "STABLE")
    ELSE ValidationResult(Zero, "ERROR")

\* The signals that end the process.
Signals == {"SIGFPE", "SIGSEGV"}

\* What a facade call reports in ret: whether it returned, how the call into
\* the store ended, the CustomValidationResult, the functions of the store it
\* invoked and the records sample_records handed to it.
FacadeRet(op, p, outcome, invoked, sampled_records) ==
    Ret(op, outcome.path \notin Signals, outcome.path, p,
        [result |-> Caught(outcome), invoked |-> invoked,
         sampled_records |-> sampled_records])

\* A query text as the regular expressions of extract_where_conditions read it:
\* the sequence of its words, a number (\d+) carrying its value.
Word(w) == [word |-> w, val |-> 0]

Number(n) == [word |-> "\\d+", val |-> n]

\* "SELECT SUM(amount)" and the same followed by "WHERE" and a condition.
SelectSum == <<Word("SELECT"), Word("SUM(amount)")>>

SelectSumWhere(cond) == SelectSum \o <<Word("WHERE")>> \o cond

\* "amount BETWEEN x AND y", "amount > x", "amount >= x AND amount <= y".
Between(x, y) == <<Word("amount"), Word("BETWEEN"), Number(x), Word("AND"), Number(y)>>

Greater(x) == <<Word("amount"), Word(">"), Number(x)>>

InRange(x, y) ==
    <<Word("amount"), Word(">="), Number(x), Word("AND"), Word("amount"), Word("<="), Number(y)>>

\* between_regex, greater_regex and range_regex: the words to find, "\d+" for
\* a captured number.
between_regex == <<"amount", "BETWEEN", "\\d+", "AND", "\\d+">>

greater_regex == <<"amount", ">", "\\d+">>

range_regex == <<"amount", ">=", "\\d+", "AND", "amount", "<=", "\\d+">>

\* The positions of query at which regex matches.
MatchesAt(query, regex) ==
    {i \in 1..(Len(query) - Len(regex) + 1) :
        \A j \in 1..Len(regex) : query[i + j - 1].word = regex[j]}

\* std::regex_search(query, match, regex)
RegexSearch(query, regex) == MatchesAt(query, regex) # {}

\* std::stod(match[k]) after a successful search: the value of the k-th
\* captured number of the leftmost match.
StodMatch(query, regex, k) ==
    LET i == CHOOSE m \in MatchesAt(query, regex) :
                 \A n \in MatchesAt(query, regex) : m <= n
        caps == SelectSeq(SubSeq(query, i, i + Len(regex) - 1),
                          LAMBDA t : t.word = "\\d+")
    IN  caps[k].val

\* The default upper bound 99999.99 of a "amount > x" condition, as it compares
\* with the integer amounts of the model: amount <= 99999.99 iff amount <= 99999.
DEFAULT_UPPER_BOUND == 99999

\* The query texts the facade is called with.
FacadeQueries == {SelectSum, SelectSumWhere(Between(15, 25))}

\* CustomApproximateScheduler::extract_where_conditions
ExtractWhereConditions(query) ==
    IF RegexSearch(query, between_regex)
    THEN <<StodMatch(query, between_regex, 1), StodMatch(query, between_regex, 2)>>
    ELSE IF RegexSearch(query, range_regex)
    THEN <<StodMatch(query, range_regex, 1), StodMatch(query, range_regex, 2)>>
    ELSE IF RegexSearch(query, greater_regex)
    THEN <<StodMatch(query, greater_regex, 1), DEFAULT_UPPER_BOUND>>
    ELSE NoWhere

\* CustomApproximateScheduler::execute_sum_query
ExecuteSumQueryOp(query, sampled_records, p, num_threads, div0) ==
    IF ExtractWhereConditions(query)[1] # -1 /\ ExtractWhereConditions(query)[2] # -1
    THEN FacadeRet("execute_sum_query", p,
                   ParallelSumWhereSampleOp(sampled_records, ExtractWhereConditions(query),
                                            p, num_threads, div0),
                   {"parallel_sum_where_sample", "sample_records"}, sampled_records)
    ELSE FacadeRet("execute_sum_query", p,
                   ParallelSumSampleOp(sampled_records, p, num_threads, div0),
                   {"parallel_sum_sample", "sample_records"}, sampled_records)

\* CustomApproximateScheduler::execute_avg_query
ExecuteAvgQueryOp(d, sampled_records, p, num_threads, div0) ==
    FacadeRet("execute_avg_query", p,
              ParallelAvgSampleOp(d, sampled_records, p, num_threads, div0),
              {"parallel_avg_sample", "parallel_sum_sample", "sample_records"},
              sampled_records)

\* CustomApproximateScheduler::execute_count_query
ExecuteCountQueryOp(sampled_records, p, cast) ==
    FacadeRet("execute_count_query", p, ParallelCountSampleOp(sampled_records, p, cast),
              {"parallel_count_sample", "sample_records"}, sampled_records)

\* CustomApproximateScheduler::execute_exact_sum
ExecuteExactSumOp(d) ==
    FacadeRet("execute_exact_sum", 0, Outcome("returned", SumAmountOp(d)), {"sum_amount"},
              <<>>)

\* CustomApproximateScheduler::execute_exact_avg
ExecuteExactAvgOp(d) ==
    FacadeRet("execute_exact_avg", 0, Outcome("returned", AvgAmountOp(d)),
              {"avg_amount", "sum_amount"}, <<>>)

\* CustomApproximateScheduler::execute_exact_count
ExecuteExactCountOp(d) ==
    FacadeRet("execute_exact_count", 0, Outcome("returned", Frac(CountRecordsOp(d), 1)),
              {"count_records"}, <<>>)

\* What benchmark_query reports once both runs ended: the value of the exact
\* run and of the approximate run; it does not return when the approximate run
\* did not.
BenchmarkOf(query_type, p, exact, approx) ==
    Ret("benchmark_query", approx.ok, approx.path, p,
        [result |-> [query_type |-> query_type,
                     exact_value |-> exact.value.result.value,
                     approximate_value |-> approx.value.result.value],
         invoked |-> exact.value.invoked \cup approx.value.invoked,
         sampled_records |-> approx.value.sampled_records])

\* CustomApproximateScheduler::benchmark_query: a query_type other than SUM,
\* AVG and COUNT runs the SUM pair.
BenchmarkQueryOp(query_type, d, sampled_records, p, num_threads, div0, cast) ==
    IF query_type = "AVG"
    THEN BenchmarkOf(query_type, p, ExecuteExactAvgOp(d),
                     ExecuteAvgQueryOp(d, sampled_records, p, num_threads, div0))
    ELSE IF query_type = "COUNT"
    THEN BenchmarkOf(query_type, p, ExecuteExactCountOp(d),
                     ExecuteCountQueryOp(sampled_records, p, cast))
    ELSE BenchmarkOf(query_type, p, ExecuteExactSumOp(d),
                     ExecuteSumQueryOp(SelectSum, sampled_records, p,
                                       num_threads, div0))

----------------------------------------------------------------------------
(* The SQL executor: execute_query over a table of the SQLite database *)

\* sample_step
SampleStep(sample_percent) ==
    IF sample_percent <= 0 \/ sample_percent >= 100 THEN 0
    ELSE Max(1, 100 \div sample_percent)

\* The amounts of the rows the statement execute_query builds selects from a
\* table whose row with rowid i holds amounts[i]: all of them for step 0, those
\* with rowid % step = 0 otherwise.
RECURSIVE SelectedRows(_, _, _)
SelectedRows(amounts, rowid, step) ==
    IF rowid > Len(amounts) THEN <<>>
    ELSE (IF step = 0 \/ rowid % step = 0 THEN <<amounts[rowid]>> ELSE <<>>)
         \o SelectedRows(amounts, rowid + 1, step)

\* The single cell SQLite returns for agg(column) over the selected rows, as
\* query_callback stores it: the text "NULL" for the SUM and the AVG of no row,
\* the text of a number otherwise.
Cell(text, number) == [text |-> text, number |-> number]

SqlAggregate(agg_upper, selected) ==
    IF agg_upper = "COUNT" THEN Cell("number", Frac(Len(selected), 1))
    ELSE IF selected = <<>> THEN Cell("NULL", Zero)
    ELSE IF agg_upper = "SUM" THEN Cell("number", Frac(SumSeq(selected), 1))
    ELSE Cell("number", Frac(SumSeq(selected), Len(selected)))

\* The tail of execute_query: std::stod of the cell (it throws for "NULL"), and
\* the scaling of SUM and COUNT by 100.0 / sample_percent when step > 0.
ScaledResult(agg_upper, cell, step, sample_percent) ==
    IF cell.text = "NULL" THEN Outcome("std::invalid_argument", Zero)
    ELSE IF step > 0 /\ agg_upper # "AVG"
    THEN Outcome("returned", Frac(cell.number.num * 100, cell.number.den * sample_percent))
    ELSE Outcome("returned", cell.number)

\* execute_query (executor.cpp) for SELECT agg(amount) FROM t; parse_query
\* throws for an aggregate other than SUM, COUNT and AVG.
ExecuteQueryOp(agg_upper, amounts, sample_percent) ==
    IF agg_upper \notin {"SUM", "COUNT", "AVG"} THEN Outcome("std::runtime_error", Zero)
    ELSE ScaledResult(agg_upper, SqlAggregate(agg_upper, SelectedRows(amounts, 1, SampleStep(sample_percent))),
                      SampleStep(sample_percent), sample_percent)

----------------------------------------------------------------------------
(* The facade and the executor under calls: specification SpecFacade *)

\* Bound: the facade specification loads ids 1..MaxFacadeId in order.
MaxFacadeId == 4

\* Bound: the executor's table holds up to MaxTableRows rows.
MaxTableRows == 4

\* The percentages, worker counts and aggregate names of the calls.
FacadePercents == {-50, 0, 50, 100, 150}

FacadeThreads == {-1, 0, 1, 2}

QueryTypes == {"SUM", "AVG", "COUNT", "MEDIAN"}

\* CustomApproximateScheduler::insert_record of the next id.
FacadeLoad ==
    /\ db.total_records < MaxFacadeId
    /\ db' = InsertRecordOp(db, MkRecord(db.total_records + 1))
    /\ ret' = Ret("insert_record", TRUE, "", 0, <<>>)
    /\ inserted' = inserted \cup {MkRecord(db.total_records + 1)}
    /\ UNCHANGED otherThanTree

ExecuteSumQuery ==
    \E query \in FacadeQueries, p \in FacadePercents, num_threads \in FacadeThreads,
       div0 \in DivByZeroOutcomes :
        \E sampled_records \in SampleRecordsOutcomes(db, p) :
            /\ ret' = ExecuteSumQueryOp(query, sampled_records, p, num_threads, div0)
            /\ UNCHANGED <<db, inserted>>
            /\ UNCHANGED otherThanTree

ExecuteAvgQuery ==
    \E p \in FacadePercents, num_threads \in FacadeThreads, div0 \in DivByZeroOutcomes :
        \E sampled_records \in SampleRecordsOutcomes(db, p) :
            /\ ret' = ExecuteAvgQueryOp(db, sampled_records, p, num_threads, div0)
            /\ UNCHANGED <<db, inserted>>
            /\ UNCHANGED otherThanTree

ExecuteCountQuery ==
    \E p \in FacadePercents, cast \in CastOutcomes :
        \E sampled_records \in SampleRecordsOutcomes(db, p) :
            /\ ret' = ExecuteCountQueryOp(sampled_records, p, cast)
            /\ UNCHANGED <<db, inserted>>
            /\ UNCHANGED otherThanTree

ExecuteExactSum ==
    /\ ret' = ExecuteExactSumOp(db)
    /\ UNCHANGED <<db, inserted>>
    /\ UNCHANGED otherThanTree

ExecuteExactAvg ==
    /\ ret' = ExecuteExactAvgOp(db)
    /\ UNCHANGED <<db, inserted>>
    /\ UNCHANGED otherThanTree

ExecuteExactCount ==
    /\ ret' = ExecuteExactCountOp(db)
    /\ UNCHANGED <<db, inserted>>
    /\ UNCHANGED otherThanTree

BenchmarkQuery ==
    \E query_type \in QueryTypes, p \in FacadePercents, num_threads \in FacadeThreads,
       div0 \in DivByZeroOutcomes, cast \in CastOutcomes :
        \E sampled_records \in SampleRecordsOutcomes(db, p) :
            /\ ret' = BenchmarkQueryOp(query_type, db, sampled_records, p, num_threads,
                                       div0, cast)
            /\ UNCHANGED <<db, inserted>>
            /\ UNCHANGED otherThanTree

\* The table of the executor with n rows: rowid i holds the amount of id i.
TableOf(n) == [i \in 1..n |-> AmountOf(i)]

ExecuteQuery ==
    \E agg_upper \in QueryTypes, n \in 0..MaxTableRows, sample_percent \in FacadePercents :
        /\ ret' = Ret("execute_query",
                      ExecuteQueryOp(agg_upper, TableOf(n), sample_percent).path = "returned",
                      ExecuteQueryOp(agg_upper, TableOf(n), sample_percent).path, sample_percent,
                      [agg |-> agg_upper, amounts |-> TableOf(n),
                       result |-> ExecuteQueryOp(agg_upper, TableOf(n), sample_percent).value])
        /\ UNCHANGED <<db, inserted>>
        /\ UNCHANGED otherThanTree

NextFacade ==
    \/ FacadeLoad
    \/ ExecuteSumQuery
    \/ ExecuteAvgQuery
    \/ ExecuteCountQuery
    \/ ExecuteExactSum
    \/ ExecuteExactAvg
    \/ ExecuteExactCount
    \/ BenchmarkQuery
    \/ ExecuteQuery

SpecFacade == Init /\ [][NextFacade]_vars

\* The mean of the amounts of a non-empty sequence of records.
MeanAmount(recs) == Frac(SumSeq(Amounts(recs)), Len(recs))

\* C14: the approximate AVG is the unscaled sample mean: for N >= 1 and
\* 0 < p <= 100 with a non-empty sample S, the value execute_avg_query returns
\* (that of parallel_avg_sample) is (sum of amount over S) / |S|.
C14_AvgIsSampleMean ==
    (ret.op = "execute_avg_query" /\ ret.ok /\ ret.p > 0 /\ ret.p <= 100
        /\ ret.value.result.status = "STABLE" /\ ret.value.sampled_records # <<>>) =>
        ret.value.result.value = MeanAmount(ret.value.sampled_records)

\* The exact aggregate of a table of amounts, as sum_amount, avg_amount and
\* count_records compute it over the records of the tree.
ExactOver(agg_upper, amounts) ==
    IF agg_upper = "COUNT" THEN Frac(Len(amounts), 1)
    ELSE IF agg_upper = "SUM" THEN Frac(SumSeq(amounts), 1)
    ELSE IF Len(amounts) > 0 THEN Frac(SumSeq(amounts), Len(amounts))
    ELSE Zero

\* C15: a query with sample_percent = 0 takes the exact path: execute_sum_query
\* (without WHERE), execute_avg_query, execute_count_query and the executor's
\* execute_query called with sample_percent 0 return the value of the exact
\* aggregate over all records.
C15_ZeroPercentIsExact ==
    /\ (ret.op = "execute_sum_query" /\ ret.p = 0
            /\ "parallel_sum_sample" \in ret.value.invoked) =>
        (ret.ok /\ ret.value.result.value = SumAmountOp(db))
    /\ (ret.op = "execute_avg_query" /\ ret.p = 0) =>
        (ret.ok /\ ret.value.result.value = AvgAmountOp(db))
    /\ (ret.op = "execute_count_query" /\ ret.p = 0) =>
        (ret.ok /\ ret.value.result.value = Frac(CountRecordsOp(db), 1))
    /\ (ret.op = "execute_query" /\ ret.p = 0
            /\ ret.value.agg \in {"SUM", "AVG", "COUNT"}) =>
        (ret.ok /\ ret.value.result = ExactOver(ret.value.agg, ret.value.amounts))

\* The approximate queries of the facade.
ApproximateQueries == {"execute_sum_query", "execute_avg_query", "execute_count_query"}

\* C16: execute_sum_query, execute_avg_query and execute_count_query called on
\* an empty tree with 0 < sample_percent < 100 return value 0 with status
\* INSUFFICIENT_DATA.
C16_EmptyData ==
    (ret.op \in ApproximateQueries /\ db.total_records = 0 /\ ret.p > 0 /\ ret.p < 100) =>
        (ret.ok /\ ret.value.result.value = Zero
            /\ ret.value.result.status = "INSUFFICIENT_DATA")

\* The aggregates benchmark_query knows.
BenchmarkKinds == {"SUM", "AVG", "COUNT"}

\* C17: an execute_*_query call with a negative or over-100 sample_percent, and
\* a benchmark_query call with a kind other than SUM, AVG or COUNT, is rejected
\* (status ERROR, or an error outcome) without any sampler or aggregate of the
\* tree being invoked.
C17_InvalidArgumentRejected ==
    /\ (ret.op \in ApproximateQueries /\ (ret.p < 0 \/ ret.p > 100)) =>
        (ret.value.result.status = "ERROR" /\ ret.value.invoked = {})
    /\ (ret.op = "benchmark_query" /\ ret.value.result.query_type \notin BenchmarkKinds) =>
        (~ret.ok /\ ret.value.invoked = {})

\* The calls of the facade that return a CustomValidationResult.
FacadeCalls ==
    ApproximateQueries \cup {"execute_exact_sum", "execute_exact_avg", "execute_exact_count"}

\* C18: the facade never fails across its boundary: for every query text,
\* sample_percent and num_threads, on an empty or non-empty tree, each
\* execute_*_query and execute_exact_* call returns a result whose status is
\* STABLE exactly when the underlying computation completed and ERROR, with
\* value 0, exactly when it raised an error; no failure reaches the caller.
C18_FacadeNeverFails ==
    (ret.op \in FacadeCalls) =>
        /\ ret.ok
        /\ (ret.value.result.status = "STABLE") <=> (ret.path = "returned")
        /\ (ret.value.result.status = "ERROR") <=> (ret.path # "returned")
        /\ (ret.value.result.status = "ERROR") => (ret.value.result.value = Zero)

----------------------------------------------------------------------------
(* The block samplers and a zero block size: specification SpecBlocks *)

\* (size + block_size - 1) / block_size.  With block_size = 0 the division is
\* by zero (undefined behaviour): the "zero" outcome of DivByZeroOutcomes leaves
\* the quotient 0, the "trap" outcome ends the process before it is used.
BlockCount(size, block_size) ==
    IF block_size = 0 THEN 0 ELSE (size + block_size - 1) \div block_size

\* std::max(1UL, static_cast<size_t>(total_blocks * sample_percent / 100.0))
BlocksToSample(total_blocks, p, cast) == Max(1, CastToSizeT(total_blocks, p, cast))

\* CustomBPlusDB::block_sample for every block_size: with block_size = 0 and no
\* trap, total_blocks is 0 and the loop over the blocks does not run.
BlockSampleFrom(d, p, block_size, cast, div0) ==
    IF LeafSeqOf(d) = <<>> \/ Target(Len(LeafSeqOf(d)), p) = 0 THEN Yield(d, "", <<>>)
    ELSE IF block_size = 0
    THEN (IF div0 = "trap" THEN Yield(d, "SIGFPE", <<>>) ELSE Yield(d, "", <<>>))
    ELSE BlockSampleOp(d, p, block_size, cast)

\* The loop of one worker of parallel_block_sample over its blocks
\* block_idx .. end_block - 1, until limit more records are taken.
RECURSIVE ThreadBlocks(_, _, _, _, _, _)
ThreadBlocks(all, block_idx, end_block, block_interval, block_size, limit) ==
    IF block_idx >= end_block \/ limit <= 0 THEN <<>>
    ELSE Take(SubSeq(all, block_idx * block_interval * block_size + 1,
                     Min(block_idx * block_interval * block_size + block_size, Len(all))),
              limit)
         \o ThreadBlocks(all, block_idx + 1, end_block, block_interval, block_size,
                         limit - Len(Take(SubSeq(all,
                                 block_idx * block_interval * block_size + 1,
                                 Min(block_idx * block_interval * block_size + block_size,
                                     Len(all))), limit)))

\* The records worker t (0-based) of parallel_block_sample returns, num_threads >= 1.
ThreadBlockSamples(all, t, num_threads, target, total_blocks, blocks_to_sample, blocks_per_thread, block_size) ==
    ThreadBlocks(all, t * blocks_per_thread,
                 Min(t * blocks_per_thread + blocks_per_thread, blocks_to_sample),
                 Max(1, total_blocks \div blocks_to_sample), block_size,
                 target \div num_threads)

\* The workers' records, appended in the order of the futures.
RECURSIVE CollectThreads(_, _, _, _, _, _, _, _)
CollectThreads(all, t, num_threads, target, total_blocks, blocks_to_sample, blocks_per_thread, block_size) ==
    IF t >= num_threads THEN <<>>
    ELSE ThreadBlockSamples(all, t, num_threads, target, total_blocks, blocks_to_sample,
                            blocks_per_thread, block_size)
         \o CollectThreads(all, t + 1, num_threads, target, total_blocks, blocks_to_sample,
                           blocks_per_thread, block_size)

\* parallel_block_sample once total_blocks is known (num_threads >= 1).
ParallelBlockWalk(all, target, total_blocks, blocks_to_sample, block_size, num_threads) ==
    CollectThreads(all, 0, num_threads, target, total_blocks, blocks_to_sample,
                   Max(1, blocks_to_sample \div num_threads), block_size)

\* CustomBPlusDB::parallel_block_sample (0 < p, num_threads >= 1)
ParallelBlockSampleOp(d, p, block_size, num_threads, cast, div0) ==
    IF LeafSeqOf(d) = <<>> \/ Target(Len(LeafSeqOf(d)), p) = 0 THEN Yield(d, "", <<>>)
    ELSE IF block_size = 0 /\ div0 = "trap" THEN Yield(d, "SIGFPE", <<>>)
    ELSE Yield(d, "",
               ParallelBlockWalk(LeafSeqOf(d), Target(Len(LeafSeqOf(d)), p),
                                 BlockCount(Len(LeafSeqOf(d)), block_size),
                                 BlocksToSample(BlockCount(Len(LeafSeqOf(d)), block_size),
                                                p, cast),
                                 block_size, num_threads))

\* The position of the record a stable sort by amount puts first.
FirstByAmount(s) ==
    CHOOSE i \in 1..Len(s) :
        \A j \in 1..Len(s) :
            s[i].amount < s[j].amount \/ (s[i].amount = s[j].amount /\ i <= j)

\* s without its element at position i.
Without(s, i) == SubSeq(s, 1, i - 1) \o SubSeq(s, i + 1, Len(s))

\* s sorted by amount, records of equal amount kept in their order.
RECURSIVE SortByAmount(_)
SortByAmount(s) ==
    IF s = <<>> THEN <<>>
    ELSE <<s[FirstByAmount(s)]>> \o SortByAmount(Without(s, FirstByAmount(s)))

\* Two of the orders std::sort (not stable) can leave records of equal amount in.
AmountOrders(all) == {SortByAmount(all), SortByAmount(Reverse(all))}

\* The loop over the blocks of one stratum of stratified_block_sample.
RECURSIVE StratumBlocks(_, _, _, _, _, _, _, _, _, _)
StratumBlocks(sorted_records, samples, block_idx, stratum_start, stratum_end, stratum_blocks, block_interval, block_size, samples_per_stratum, target) ==
    IF block_idx >= stratum_blocks \/ Len(samples) >= target THEN samples
    ELSE StratumBlocks(
             sorted_records,
             samples \o SubSeq(sorted_records, stratum_start + block_idx * block_size + 1,
                               stratum_start + block_idx * block_size
                               + Min(Min(samples_per_stratum, target - Len(samples)),
                                     Min(stratum_start + block_idx * block_size + block_size,
                                         stratum_end)
                                     - (stratum_start + block_idx * block_size))),
             block_idx + block_interval, stratum_start, stratum_end, stratum_blocks,
             block_interval, block_size, samples_per_stratum, target)

\* One stratum [stratum_start, stratum_end) of stratified_block_sample.
StratumSamples(sorted_records, samples, stratum_start, stratum_end, p, block_size, samples_per_stratum, target, cast) ==
    StratumBlocks(sorted_records, samples, 0, stratum_start, stratum_end,
                  BlockCount(stratum_end - stratum_start, block_size),
                  BlockInterval(BlockCount(stratum_end - stratum_start, block_size), p, cast),
                  block_size, samples_per_stratum, target)

\* The loop over the strata: the last stratum runs to the end of the records.
RECURSIVE StrataWalk(_, _, _, _, _, _, _, _, _)
StrataWalk(sorted_records, samples, stratum, strata_count, stratum_size, p, block_size, target, cast) ==
    IF stratum >= strata_count \/ Len(samples) >= target THEN samples
    ELSE StrataWalk(sorted_records,
                    StratumSamples(sorted_records, samples, stratum * stratum_size,
                                   IF stratum = strata_count - 1 THEN Len(sorted_records)
                                   ELSE stratum * stratum_size + stratum_size,
                                   p, block_size, target \div strata_count, target, cast),
                    stratum + 1, strata_count, stratum_size, p, block_size, target, cast)

\* CustomBPlusDB::stratified_block_sample (0 < p, strata_count >= 1), std::sort
\* having left the records as sorted_records.
StratifiedBlockSampleOp(d, sorted_records, p, block_size, strata_count, cast, div0) ==
    IF LeafSeqOf(d) = <<>> \/ Target(Len(LeafSeqOf(d)), p) = 0 THEN Yield(d, "", <<>>)
    ELSE IF block_size = 0 /\ div0 = "trap" THEN Yield(d, "SIGFPE", <<>>)
    ELSE Yield(d, "",
               StrataWalk(sorted_records, <<>>, 0, strata_count,
                          Len(sorted_records) \div strata_count, p, block_size,
                          Target(Len(LeafSeqOf(d)), p), cast))

\* Bound: the block specification loads ids 1..MaxBlockId in order.
MaxBlockId == 6

\* The percentages, block sizes and worker / strata counts of the calls.
BlockPercents == {50, 100}

BlockSizes == {0, 2, 3}

BlockThreads == {1, 2}

\* insert_record of the next id.
BlockLoad ==
    /\ db.total_records < MaxBlockId
    /\ db' = InsertRecordOp(db, MkRecord(db.total_records + 1))
    /\ ret' = Ret("insert_record", TRUE, "", 0, <<>>)
    /\ inserted' = inserted \cup {MkRecord(db.total_records + 1)}
    /\ UNCHANGED otherThanTree

\* A block sampler call with its block_size, ended as r = [db, path, samples].
BlockSampled(op, p, block_size, r) ==
    /\ db' = r.db
    /\ ret' = Ret(op, r.path # "SIGFPE", r.path, p,
                  [block_size |-> block_size, samples |-> r.samples])

BlockSampleAnySize ==
    \E p \in BlockPercents, block_size \in BlockSizes, cast \in CastOutcomes,
       div0 \in DivByZeroOutcomes :
        /\ BlockSampled("block_sample", p, block_size,
                        BlockSampleFrom(db, p, block_size, cast, div0))
        /\ UNCHANGED inserted
        /\ UNCHANGED otherThanTree

ParallelBlockSample ==
    \E p \in BlockPercents, block_size \in BlockSizes, num_threads \in BlockThreads,
       cast \in CastOutcomes, div0 \in DivByZeroOutcomes :
        /\ BlockSampled("parallel_block_sample", p, block_size,
                        ParallelBlockSampleOp(db, p, block_size, num_threads, cast, div0))
        /\ UNCHANGED inserted
        /\ UNCHANGED otherThanTree

StratifiedBlockSample ==
    \E p \in BlockPercents, block_size \in BlockSizes, strata_count \in BlockThreads,
       cast \in CastOutcomes, div0 \in DivByZeroOutcomes :
        \E sorted_records \in AmountOrders(LeafSeq) :
            /\ BlockSampled("stratified_block_sample", p, block_size,
                            StratifiedBlockSampleOp(db, sorted_records, p, block_size,
                                                    strata_count, cast, div0))
            /\ UNCHANGED inserted
            /\ UNCHANGED otherThanTree

NextBlocks ==
    \/ BlockLoad
    \/ BlockSampleAnySize
    \/ ParallelBlockSample
    \/ StratifiedBlockSample

SpecBlocks == Init /\ [][NextBlocks]_vars

\* The samplers that take a block_size.
BlockSamplers == {"block_sample", "parallel_block_sample", "stratified_block_sample"}

\* C19: block_sample, parallel_block_sample and stratified_block_sample called
\* with block_size = 0 on a non-empty tree with target >= 1 reject the call as
\* an invalid argument: they report an error to the caller and return no
\* sample, the tree unchanged, and the process is not ended by a division by
\* the zero block size.
C19_ZeroBlockSizeRejected ==
    (ret.op \in BlockSamplers /\ ret.value.block_size = 0 /\ Len(LeafSeq) >= 1
        /\ (Len(LeafSeq) * ret.p) \div 100 >= 1) =>
        (~ret.ok /\ ret.path = "std::invalid_argument")

----------------------------------------------------------------------------
(* random_pointer_sample called twice: specification SpecRandom *)

\* Bound: the specification loads ids 1..MaxRandomId in order.
MaxRandomId == 6

\* The percentages of the calls.
RandomPercents == {25, 50, 75, 100, 150}

\* insert_record of the next id.
RandomLoad ==
    /\ db.total_records < MaxRandomId
    /\ db' = InsertRecordOp(db, MkRecord(db.total_records + 1))
    /\ ret' = Ret("insert_record", TRUE, "", 0, <<>>)
    /\ inserted' = inserted \cup {MkRecord(db.total_records + 1)}
    /\ UNCHANGED otherThanTree

\* What a call of random_pointer_sample reports: its seed, the records it
\* returned and, for the second of two calls, those of the first.
RandomRet(p, seed, samples, first, repeated) ==
    Ret("random_pointer_sample", TRUE, "", p,
        [seed |-> seed, samples |-> samples, first |-> first, repeated |-> repeated])

\* random_pointer_sample(p, seed)
RandomPointerSample ==
    \E p \in RandomPercents, seed \in Seeds :
        /\ db' = RandomPointerSampleOp(db, p, seed).db
        /\ ret' = RandomRet(p, seed, RandomPointerSampleOp(db, p, seed).samples, <<>>, FALSE)
        /\ UNCHANGED inserted
        /\ UNCHANGED otherThanTree

\* The same call once more, on the same tree with the same arguments.
RandomPointerSampleAgain ==
    /\ ret.op = "random_pointer_sample"
    /\ ~ret.value.repeated
    /\ db' = RandomPointerSampleOp(db, ret.p, ret.value.seed).db
    /\ ret' = RandomRet(ret.p, ret.value.seed,
                        RandomPointerSampleOp(db, ret.p, ret.value.seed).samples,
                        ret.value.samples, TRUE)
    /\ UNCHANGED inserted
    /\ UNCHANGED otherThanTree

NextRandom ==
    \/ RandomLoad
    \/ RandomPointerSample
    \/ RandomPointerSampleAgain

SpecRandom == Init /\ [][NextRandom]_vars

\* The position of record r in the sequence all (0 when it is not there).
PositionIn(all, r) ==
    IF \E i \in 1..Len(all) : all[i] = r THEN CHOOSE i \in 1..Len(all) : all[i] = r ELSE 0

\* samples holds records of all at strictly increasing positions.
AtIncreasingPositions(all, samples) ==
    /\ \A k \in 1..Len(samples) : PositionIn(all, samples[k]) >= 1
    /\ \A k \in 1..(Len(samples) - 1) :
          PositionIn(all, samples[k]) < PositionIn(all, samples[k + 1])

----------------------------------------------------------------------------
(* The record count and the exact sum of the store: specification SpecStore *)

\* The snapshot files load_from_file is called on: none, and those
\* save_to_file writes for a store holding up to BatchSize records.
StoreFiles ==
    {NoFile} \cup {SaveToFileOp(InsertBatchOp(FreshDB, S)) :
                     S \in {T \in SUBSET Records : Cardinality(T) <= BatchSize}}

\* load_from_file(x) on the store, x holding the snapshot f.
StoreLoadFromFile ==
    \E f \in StoreFiles, relock \in RelockOutcomes :
        /\ Loaded(LoadFromFileOp(db, f, relock))
        /\ inserted' = IF f.exists THEN {} ELSE inserted
        /\ UNCHANGED otherThanTree

NextStore ==
    \/ CreateDatabase
    \/ InsertRecord
    \/ InsertBatch
    \/ StoreLoadFromFile

SpecStore == Init /\ [][NextStore]_vars

\* The sum of key_count over the nodes of S that are leaves.
RECURSIVE LeafKeyCount(_, _)
LeafKeyCount(heap, S) ==
    IF S = {} THEN 0
    ELSE (IF heap[CHOOSE n \in S : TRUE].is_leaf
          THEN heap[CHOOSE n \in S : TRUE].key_count ELSE 0)
         + LeafKeyCount(heap, S \ {CHOOSE n \in S : TRUE})

\* The sum of amount over the first key_count records of the leaves of S.
RECURSIVE LeafAmount(_, _)
LeafAmount(heap, S) ==
    IF S = {} THEN 0
    ELSE (IF heap[CHOOSE n \in S : TRUE].is_leaf
          THEN SumSeq(Amounts(SubSeq(heap[CHOOSE n \in S : TRUE].records, 1,
                                     heap[CHOOSE n \in S : TRUE].key_count)))
          ELSE 0)
         + LeafAmount(heap, S \ {CHOOSE n \in S : TRUE})

\* C21: in every state reached by create_database, insert_record, insert_batch
\* and load_from_file, total_records (the value of get_total_records and
\* count_records) equals the sum of key_count over all leaves of the tree, and
\* sum_amount equals the sum of amount over exactly the records of those leaves.
C21_CountAndSumMatchLeaves ==
    /\ db.total_records = LeafKeyCount(db.nodes, SubtreeNodes(db.nodes, db.root))
    /\ CountRecordsOp(db) = LeafKeyCount(db.nodes, SubtreeNodes(db.nodes, db.root))
    /\ SumAmountOp(db) = Frac(LeafAmount(db.nodes, SubtreeNodes(db.nodes, db.root)), 1)

\* A tree of three levels (an internal node was split) built in part by
\* insert_batch.
C21_Witness ==
    /\ ret.op = "insert_batch"
    /\ db.tree_height >= 3
    /\ db.total_records >= 5
    /\ ~db.nodes[db.root].is_leaf

\* A load_from_file that ended in the relock after it had emptied the tree.
C21_WitnessLoad ==
    /\ ret.op = "load_from_file"
    /\ ret.path = "system_error"
    /\ db.total_records = 0

----------------------------------------------------------------------------
(* The refresh of the subtree counts: specification SpecCounts *)

\* root->update_subtree_counts() on the store as the inserts left it.
UpdateSubtreeCountsCall ==
    /\ db.root # NULL
    /\ ret.op # "update_subtree_counts"
    /\ db' = UpdateSubtreeCounts(db)
    /\ ret' = Ret("update_subtree_counts", TRUE, "", 0, <<>>)
    /\ UNCHANGED inserted
    /\ UNCHANGED otherThanTree

NextCounts ==
    \/ CreateDatabase
    \/ InsertRecord
    \/ InsertBatch
    \/ UpdateSubtreeCountsCall

SpecCounts == Init /\ [][NextCounts]_vars

\* The sum of subtree_record_count over a list of children.
RECURSIVE ChildCounts(_, _)
ChildCounts(heap, children) ==
    IF children = <<>> THEN 0
    ELSE heap[Head(children)].subtree_record_count + ChildCounts(heap, Tail(children))

\* The count of node nid is exact: the number of records below it, which is
\* key_count for a leaf and the sum over its children for an internal node.
CountExact(heap, nid) ==
    /\ heap[nid].subtree_record_count = Len(GetAllRecords(heap, nid))
    /\ heap[nid].subtree_record_count =
           IF heap[nid].is_leaf THEN heap[nid].key_count
           ELSE ChildCounts(heap, SubSeq(heap[nid].children, 1, heap[nid].key_count + 1))

\* C22: after root->update_subtree_counts() on a tree reached by any sequence
\* of inserts, every node's subtree_record_count equals the number of records
\* in its subtree (key_count for a leaf, the sum over its children for an
\* internal node) and the root's subtree_record_count equals total_records.
C22_CountsExactAfterRefresh ==
    ret.op = "update_subtree_counts" =>
        /\ \A nid \in SubtreeNodes(db.nodes, db.root) : CountExact(db.nodes, nid)
        /\ db.nodes[db.root].subtree_record_count = db.total_records

\* A refresh of a tree of three levels whose counts had been refreshed before
\* and lagged again.
C22_Witness ==
    /\ ret.op = "update_subtree_counts"
    /\ db.tree_height >= 3
    /\ db.total_records >= 5

\* Before the refresh the counts lag: the root of a split tree counts fewer
\* records than the store holds, and a leaf that was split counts more than
\* it holds.
C22_WitnessLag ==
    /\ ret.op \in {"insert_record", "insert_batch"}
    /\ db.nodes[db.root].subtree_record_count < db.total_records
    /\ \E nid \in SubtreeNodes(db.nodes, db.root) :
           /\ db.nodes[nid].is_leaf
           /\ db.nodes[nid].subtree_record_count > db.nodes[nid].key_count

----------------------------------------------------------------------------
(* The samplers that read the root's subtree_record_count: specification SpecRefresh *)

RefreshPercents == {50, 100}
NthValues == {1, 2}

\* The loops of random_start_nth_sample: from index i, every nth record while
\* i < stop and fewer than target_count records were taken.
RECURSIVE NthWalk(_, _, _, _, _, _)
NthWalk(all_records, i, stop, nth, samples, target_count) ==
    IF i >= stop \/ Len(samples) >= target_count THEN samples
    ELSE NthWalk(all_records, i + nth, stop, nth,
                 Append(samples, all_records[i + 1]), target_count)

\* random_start_nth_sample once total_records was read from the root:
\* start_index is the draw of start_dist(gen).
RandomStartNthFrom(d, total, target_count, nth, start_index) ==
    IF total = 0 THEN Yield(d, "zero_count", <<>>)
    ELSE IF target_count = 0 THEN Yield(d, "zero_target", <<>>)
    ELSE IF LeafSeqOf(d) = <<>> THEN Yield(d, "empty", <<>>)
    ELSE Yield(d, "sampled",
               NthWalk(LeafSeqOf(d), 0, start_index, nth,
                       NthWalk(LeafSeqOf(d), start_index, Len(LeafSeqOf(d)), nth,
                               <<>>, target_count),
                       target_count))

\* CustomBPlusDB::random_start_nth_sample
RandomStartNthSampleOp(d, p, nth, start_index) ==
    IF d.root = NULL THEN Yield(d, "noroot", <<>>)
    ELSE RandomStartNthFrom(d, d.nodes[d.root].subtree_record_count,
                            Target(d.nodes[d.root].subtree_record_count, p),
                            nth, start_index)

\* byte_offset_sample once total_records was read from the root.
ByteOffsetFrom(d, total, p) ==
    IF total = 0 THEN Yield(d, "zero_count", <<>>)
    ELSE IF Target(total, p) = 0 THEN Yield(d, "zero_target", <<>>)
    ELSE IndexBasedSampleOp(d, p)

\* CustomBPlusDB::byte_offset_sample
ByteOffsetSampleOp(d, p) ==
    IF d.root = NULL THEN Yield(d, "noroot", <<>>)
    ELSE ByteOffsetFrom(d,
                        IF d.nodes[d.root].subtree_record_count = 0
                        THEN Len(LeafSeqOf(d))
                        ELSE d.nodes[d.root].subtree_record_count,
                        p)

\* What a sampler call leaves: whether it read the root's count, the value it
\* read, and the sample.
CountRead(op, p, r, read, count_read) ==
    /\ db' = r.db
    /\ ret' = Ret(op, TRUE, r.path, p,
                  [read |-> read, count_read |-> count_read, samples |-> r.samples])

RandomStartNthSample ==
    \E p \in RefreshPercents, nth \in NthValues,
       start_index \in 0..Max(0, Len(LeafSeq) - 1) :
        /\ CountRead("random_start_nth_sample", p,
                     RandomStartNthSampleOp(db, p, nth, start_index),
                     TRUE, db.nodes[db.root].subtree_record_count)
        /\ UNCHANGED inserted
        /\ UNCHANGED otherThanTree

ByteOffsetSample ==
    \E p \in RefreshPercents :
        /\ CountRead("byte_offset_sample", p, ByteOffsetSampleOp(db, p),
                     TRUE, db.nodes[db.root].subtree_record_count)
        /\ UNCHANGED inserted
        /\ UNCHANGED otherThanTree

RefreshMemoryStrideSample ==
    \E p \in RefreshPercents :
        /\ CountRead("memory_stride_sample", p, MemoryStrideSampleOp(db, p, 0),
                     ~FastPath(db), db.nodes[db.root].subtree_record_count)
        /\ UNCHANGED inserted
        /\ UNCHANGED otherThanTree

RefreshIndexBasedSample ==
    \E p \in RefreshPercents :
        /\ CountRead("index_based_sample", p, IndexBasedSampleOp(db, p),
                     p < 100, UpdateSubtreeCounts(db).nodes[db.root].subtree_record_count)
        /\ UNCHANGED inserted
        /\ UNCHANGED otherThanTree

NextRefresh ==
    \/ CreateDatabase
    \/ InsertRecord
    \/ InsertBatch
    \/ RandomStartNthSample
    \/ ByteOffsetSample
    \/ RefreshMemoryStrideSample
    \/ RefreshIndexBasedSample

SpecRefresh == Init /\ [][NextRefresh]_vars

CountReaders ==
    {"random_start_nth_sample", "byte_offset_sample", "memory_stride_sample",
     "index_based_sample"}

\* C23: refresh before read: every sampler that reads a node's
\* subtree_record_count refreshes the counts earlier in the same call, so the
\* value it reads at the root equals total_records after any sequence of
\* inserts, including right after a root split.
C23_RefreshBeforeRead ==
    (ret.op \in CountReaders /\ ret.value.read) =>
        ret.value.count_read = db.total_records

----------------------------------------------------------------------------
(* execute_query_groupby: specification SpecGroupBy *)

\* Bound: the grouped table holds up to MaxGroupRows rows.
MaxGroupRows == 3

\* int is INT_BITS wide (32 in the build, scaled).
INT_BITS == 8
INT_MAX == 2 ^ (INT_BITS - 1) - 1

\* What a signed overflow can do: wrap in two's complement, or trap.
IntOverflowOutcomes == {"wrap", "trap"}

GroupKeys == {"a", "b", "c"}
GroupAggs == {"SUM", "COUNT", "AVG"}
GroupPercents == {0, 50}
GroupThreads == {1, 2, 3, INT_MAX}

\* The tables: the row with rowid i holds a group key and the amount of id i.
GroupTables ==
    UNION {[1..n -> GroupKeys] : n \in 0..MaxGroupRows}

\* SELECT DISTINCT g FROM t: each key once, in the order of its first row.
RECURSIVE DistinctGroups(_, _, _)
DistinctGroups(table, rowid, seen) ==
    IF rowid > Len(table) THEN <<>>
    ELSE IF table[rowid] \in seen THEN DistinctGroups(table, rowid + 1, seen)
    ELSE <<table[rowid]>> \o DistinctGroups(table, rowid + 1, seen \cup {table[rowid]})

\* The amounts of the rows the worker's statement selects for the key gval:
\* WHERE g = 'gval' AND rowid % step = 0 (the second condition when step > 0).
RECURSIVE GroupSelected(_, _, _, _)
GroupSelected(table, gval, rowid, step) ==
    IF rowid > Len(table) THEN <<>>
    ELSE (IF table[rowid] = gval /\ (step = 0 \/ rowid % step = 0)
          THEN <<AmountOf(rowid)>> ELSE <<>>)
         \o GroupSelected(table, gval, rowid + 1, step)

\* The worker's aggregate for one key: std::stod of the cell, scaled as in
\* execute_query.
GroupAggregate(table, agg_upper, gval, sample_percent) ==
    ScaledResult(agg_upper,
                 SqlAggregate(agg_upper, GroupSelected(table, gval, 1, SampleStep(sample_percent))),
                 SampleStep(sample_percent), sample_percent)

\* An int result reduced to INT_BITS bits, two's complement.
WrapInt(x) == ((x + 2 ^ (INT_BITS - 1)) % 2 ^ INT_BITS) - 2 ^ (INT_BITS - 1)

\* The quotient of ints, truncated toward zero (b > 0).
TruncDiv(a, b) == IF a >= 0 THEN a \div b ELSE -((-a) \div b)

\* int chunk = (total + num_threads - 1) / num_threads
Chunk(total, num_threads) == TruncDiv(WrapInt(total + num_threads - 1), num_threads)

\* The launch loop from thread t on: one worker per range [start, end) until
\* start >= end.
RECURSIVE LaunchWorkers(_, _, _, _)
LaunchWorkers(t, chunk, total, num_threads) ==
    IF t >= num_threads \/ t * chunk >= Min(t * chunk + chunk, total) THEN <<>>
    ELSE <<[start |-> t * chunk, end |-> Min(t * chunk + chunk, total),
            i |-> t * chunk, pc |-> "query", val |-> Zero]>>
         \o LaunchWorkers(t + 1, chunk, total, num_threads)

\* final[gval] = agg_val on the std::map.
FinalPut(final, gval, agg_val) ==
    {e \in final : e.key # gval} \cup {[key |-> gval, value |-> agg_val]}

\* execute_query_groupby up to the launch of the workers, groups being the
\* result of the distinct scan.
GroupByStart(table, agg_upper, p, num_threads, groups, overflow) ==
    [phase |-> IF Len(groups) = 0 THEN "returned"
               ELSE IF Len(groups) + num_threads - 1 > INT_MAX /\ overflow = "trap"
               THEN "terminated"
               ELSE "running",
     table |-> table, agg |-> agg_upper, p |-> p, num_threads |-> num_threads,
     groups |-> groups, final |-> {}, mtx |-> 0,
     workers |-> IF Len(groups) = 0
                    \/ (Len(groups) + num_threads - 1 > INT_MAX /\ overflow = "trap")
                 THEN <<>>
                 ELSE LaunchWorkers(0, Chunk(Len(groups), num_threads), Len(groups),
                                    num_threads)]

GroupByBegin ==
    \E table \in GroupTables, agg_upper \in GroupAggs, p \in GroupPercents,
       num_threads \in GroupThreads, overflow \in IntOverflowOutcomes :
        /\ grp.phase = "idle"
        /\ grp' = GroupByStart(table, agg_upper, p, num_threads,
                               DistinctGroups(table, 1, {}), overflow)
        /\ UNCHANGED otherThanGrp

\* A worker runs its statement for groups[i]; an exception of std::stod leaves
\* the thread function and std::terminate ends the process.
GroupWorkerQuery ==
    \E w \in DOMAIN grp.workers :
        /\ grp.phase = "running"
        /\ grp.workers[w].pc = "query"
        /\ grp' = IF GroupAggregate(grp.table, grp.agg, grp.groups[grp.workers[w].i + 1],
                                    grp.p).path = "returned"
                  THEN [grp EXCEPT
                          !.workers[w].val =
                              GroupAggregate(grp.table, grp.agg,
                                             grp.groups[grp.workers[w].i + 1], grp.p).value,
                          !.workers[w].pc = "lock"]
                  ELSE [grp EXCEPT !.phase = "terminated"]
        /\ UNCHANGED otherThanGrp

\* std::lock_guard<std::mutex> lock(mtx)
GroupWorkerLock ==
    \E w \in DOMAIN grp.workers :
        /\ grp.phase = "running"
        /\ grp.workers[w].pc = "lock"
        /\ grp.mtx = 0
        /\ grp' = [grp EXCEPT !.mtx = w, !.workers[w].pc = "write"]
        /\ UNCHANGED otherThanGrp

\* final[gval] = agg_val, the end of the guarded block and the loop's ++i.
GroupWorkerWrite ==
    \E w \in DOMAIN grp.workers :
        /\ grp.phase = "running"
        /\ grp.workers[w].pc = "write"
        /\ grp' = [grp EXCEPT
                     !.final = FinalPut(@, grp.groups[grp.workers[w].i + 1],
                                        grp.workers[w].val),
                     !.mtx = 0,
                     !.workers[w].i = @ + 1,
                     !.workers[w].pc = IF grp.workers[w].i + 1 < grp.workers[w].end
                                       THEN "query" ELSE "done"]
        /\ UNCHANGED otherThanGrp

\* for (auto &th : threads) th.join(); return final
GroupByReturn ==
    /\ grp.phase = "running"
    /\ \A w \in DOMAIN grp.workers : grp.workers[w].pc = "done"
    /\ grp' = [grp EXCEPT !.phase = "returned"]
    /\ UNCHANGED otherThanGrp

NextGroupBy ==
    \/ GroupByBegin
    \/ GroupWorkerQuery
    \/ GroupWorkerLock
    \/ GroupWorkerWrite
    \/ GroupByReturn

SpecGroupBy == Init /\ [][NextGroupBy]_vars

\* The indices of the range of worker w.
WorkerRange(w) == {i \in 0..(Len(grp.groups) - 1) : grp.workers[w].start <= i /\ i < grp.workers[w].end}

\* C24: for every number G >= 0 of distinct group keys and every
\* num_threads >= 1, the ranges [start, end) handed to the workers of
\* execute_query_groupby are pairwise disjoint and cover [0, G), writes to the
\* result map are mutually exclusive, and the call ends with all workers
\* joined and a map that holds exactly one entry per distinct group key.
C24_GroupKeysComplete ==
    /\ grp.phase # "terminated"
    /\ grp.phase = "running" =>
           /\ \A v, w \in DOMAIN grp.workers : v # w => WorkerRange(v) \cap WorkerRange(w) = {}
           /\ UNION {WorkerRange(w) : w \in DOMAIN grp.workers} = 0..(Len(grp.groups) - 1)
           /\ Cardinality({w \in DOMAIN grp.workers : grp.workers[w].pc = "write"}) <= 1
    /\ grp.phase = "returned" =>
           /\ {e.key : e \in grp.final} = Range(grp.groups)
           /\ Cardinality(grp.final) = Len(grp.groups)

----------------------------------------------------------------------------
(* execute_query_with_ci: specification SpecCi *)

\* Bound: the table of the confidence-interval queries holds up to MaxCiRows rows.
MaxCiRows == 4

CiAmounts == {10, 20}
CiAggs == {"SUM", "AVG", "COUNT"}
CiPercents == {0, 25, 50, 100}

\* The tables: the row with rowid i holds amounts[i].
CiTables == UNION {[1..n -> CiAmounts] : n \in 0..MaxCiRows}

\* The square of margin = 1.96 * sqrt(variance / count) * scale_factor, with
\* variance = (sum_sq - sum * sum / count) / (count - 1).
CiMarginSquared(count, sum, sum_sq, scale) ==
    Frac(Frac(Z_SQUARED_E4, 10000).num * (count * sum_sq - sum * sum) * scale.num * scale.num,
         Frac(Z_SQUARED_E4, 10000).den * count * count * (count - 1) * scale.den * scale.den)

\* What execute_query_with_ci returns: value, and the square of the margin m
\* with ci_lower = value - m and ci_upper = value + m.
CiResult(path, value, margin_sq) == [path |-> path, value |-> value, margin_sq |-> margin_sq]

\* return {result, result, result} with result = execute_query(...)
CiOfPlain(r) == CiResult(r.path, r.value, Zero)

\* execute_query_with_ci once the statistics statement returned the count,
\* sum and sum of squares of the sampled rows; std::stod throws for the
\* "NULL" sum of no row.
CiFromStats(agg_upper, amounts, sample_percent, selected) ==
    IF selected = <<>> THEN CiResult("std::invalid_argument", Zero, Zero)
    ELSE IF Len(selected) < 2 THEN CiOfPlain(ExecuteQueryOp(agg_upper, amounts, sample_percent))
    ELSE CiResult("returned",
                  IF agg_upper = "SUM"
                  THEN Frac(SumSeq(selected) * 100, Len(selected) * sample_percent)
                  ELSE Frac(SumSeq(selected), Len(selected)),
                  CiMarginSquared(Len(selected), SumSeq(selected), SumSquares(selected),
                                  IF agg_upper = "SUM" THEN Frac(100, sample_percent)
                                  ELSE Frac(1, 1)))

\* execute_query_with_ci (executor.cpp) for SELECT agg(amount) FROM t
ExecuteQueryWithCiOp(agg_upper, amounts, sample_percent) ==
    IF SampleStep(sample_percent) = 0 \/ agg_upper \notin {"SUM", "AVG"}
    THEN CiOfPlain(ExecuteQueryOp(agg_upper, amounts, sample_percent))
    ELSE CiFromStats(agg_upper, amounts, sample_percent,
                     SelectedRows(amounts, 1, SampleStep(sample_percent)))

\* execute_query on one of the tables.
CiExecuteQuery ==
    \E agg_upper \in CiAggs, amounts \in CiTables, sample_percent \in CiPercents :
        /\ ret' = Ret("execute_query",
                      ExecuteQueryOp(agg_upper, amounts, sample_percent).path = "returned",
                      ExecuteQueryOp(agg_upper, amounts, sample_percent).path, sample_percent,
                      [agg |-> agg_upper, amounts |-> amounts,
                       result |-> ExecuteQueryOp(agg_upper, amounts, sample_percent).value])
        /\ UNCHANGED <<db, inserted>>
        /\ UNCHANGED otherThanTree

\* execute_query_with_ci on one of the tables; plain is what execute_query
\* returns for the same query and sample_percent.
ExecuteQueryWithCi ==
    \E agg_upper \in CiAggs, amounts \in CiTables, sample_percent \in CiPercents :
        /\ ret' = Ret("execute_query_with_ci",
                      ExecuteQueryWithCiOp(agg_upper, amounts, sample_percent).path = "returned",
                      ExecuteQueryWithCiOp(agg_upper, amounts, sample_percent).path,
                      sample_percent,
                      [agg |-> agg_upper, amounts |-> amounts,
                       sampled |-> SelectedRows(amounts, 1, SampleStep(sample_percent)),
                       result |-> ExecuteQueryWithCiOp(agg_upper, amounts, sample_percent),
                       plain |-> ExecuteQueryOp(agg_upper, amounts, sample_percent)])
        /\ UNCHANGED <<db, inserted>>
        /\ UNCHANGED otherThanTree

NextCi ==
    \/ CiExecuteQuery
    \/ ExecuteQueryWithCi

SpecCi == Init /\ [][NextCi]_vars

\* C25: for a SUM query with 0 < p < 100 and at least 2 sampled rows, the
\* value returned by execute_query_with_ci equals the SUM estimate, (sum over
\* the sample) * (100 / p), returned by execute_query for the same query and
\* sample_percent, and ci_lower <= value <= ci_upper with the interval
\* symmetric around value (a margin m >= 0 with ci_lower = value - m and
\* ci_upper = value + m).
C25_CiValueIsSumEstimate ==
    (/\ ret.op = "execute_query_with_ci"
     /\ ret.value.agg = "SUM"
     /\ 0 < ret.p /\ ret.p < 100
     /\ Len(ret.value.sampled) >= 2) =>
        /\ ret.value.result.path = "returned"
        /\ ret.value.result.value = ret.value.plain.value
        /\ ret.value.result.value = Frac(SumSeq(ret.value.sampled) * 100, ret.p)
        /\ ret.value.result.margin_sq.num >= 0

----------------------------------------------------------------------------
(* create, open and close through the scheduler: specification SpecClose *)

\* Bound: the close specification inserts ids 1..MaxCloseId.
MaxCloseId == 3

\* The paths handed to create_database: none, and the path of the snapshot file.
ClosePaths == {"", "p"}

\* The calling thread is not blocked inside an earlier call.
Returned == ret.path # "deadlock"

\* CustomBPlusDB::close_database: the snapshot file afterwards.
CloseDatabaseOp(d, f) == IF d.db_path_ # "" THEN SaveToFileOp(d) ELSE f

\* CustomApproximateScheduler::create_database
SchedCreateDatabase ==
    \E path \in ClosePaths :
        /\ Returned
        /\ sched' = [db_path_ |-> path, opened |-> TRUE]
        /\ db' = CreateDatabaseOp(db, path)
        /\ ret' = Ret("create_database", TRUE, "", 0, <<>>)
        /\ UNCHANGED file
        /\ UNCHANGED otherThanClose

\* CustomApproximateScheduler::open_database on the path of the snapshot file.
SchedOpenDatabase ==
    \E relock \in RelockOutcomes :
        /\ Returned
        /\ sched' = [db_path_ |-> "p",
                     opened |-> LoadFromFileOp(db, file, relock).result = "true"]
        /\ db' = LoadFromFileOp(db, file, relock).db
        /\ ret' = Ret("open_database", LoadFromFileOp(db, file, relock).result = "true",
                      LoadFromFileOp(db, file, relock).result, 0, <<>>)
        /\ UNCHANGED file
        /\ UNCHANGED otherThanClose

\* CustomApproximateScheduler::insert_record
SchedInsertRecord ==
    \E rec \in Records :
        /\ Returned
        /\ rec.id <= MaxCloseId
        /\ rec.id \notin StoredIds
        /\ db' = InsertRecordOp(db, rec)
        /\ ret' = Ret("insert_record", TRUE, "", 0, <<>>)
        /\ UNCHANGED <<file, sched>>
        /\ UNCHANGED otherThanClose

\* CustomApproximateScheduler::close_database; wrote tells whether
\* save_to_file was called.
SchedCloseDatabase ==
    /\ Returned
    /\ file' = CloseDatabaseOp(db, file)
    /\ ret' = Ret("close_database", TRUE, "", 0, [wrote |-> db.db_path_ # ""])
    /\ UNCHANGED <<db, sched>>
    /\ UNCHANGED otherThanClose

\* The scheduler is destroyed (both destructors call close_database) and a
\* new one is constructed.
SchedReconstruct ==
    /\ Returned
    /\ ret.op # "construct"
    /\ file' = CloseDatabaseOp(db, file)
    /\ db' = FreshDB
    /\ sched' = [db_path_ |-> "", opened |-> FALSE]
    /\ ret' = Ret("construct", TRUE, "", 0, <<>>)
    /\ UNCHANGED otherThanClose

NextClose ==
    \/ SchedCreateDatabase
    \/ SchedOpenDatabase
    \/ SchedInsertRecord
    \/ SchedCloseDatabase
    \/ SchedReconstruct

SpecClose == Init /\ [][NextClose]_vars

\* C26: after create_database(p) or open_database(p) followed by any sequence
\* of inserts, close_database writes a snapshot to p whose record list is the
\* current leaf sequence; when no path was set, close_database writes nothing.
C26_CloseFlushesToPath ==
    ret.op = "close_database" =>
        /\ (sched.opened /\ sched.db_path_ # "") =>
               /\ ret.value.wrote
               /\ file.exists
               /\ file.records = LeafSeq
        /\ sched.db_path_ = "" => ~ret.value.wrote

----------------------------------------------------------------------------
(* load_from_file on a missing or truncated snapshot: specification SpecLoadFailure *)

\* A snapshot as its bytes lie in the file: words is the number of complete
\* size_t words of the header (stored_total, stored_height, record_count),
\* record_count the third of them (when present), records the complete
\* records that follow.
Snapshot(words, record_count, records) ==
    [exists |-> TRUE, words |-> words, record_count |-> record_count, records |-> records]

MissingSnapshot == [exists |-> FALSE, words |-> 0, record_count |-> 0, records |-> <<>>]

\* The file is missing, or ends before the header or before the records the
\* header announces.
Truncated(f) == ~f.exists \/ f.words < 3 \/ Len(f.records) < f.record_count

\* The snapshots of the failure cases: missing, cut inside the header, and
\* announcing one or two records more than the file holds.
BrokenSnapshots ==
    {MissingSnapshot}
    \cup {Snapshot(words, 0, <<>>) : words \in 0..2}
    \cup {Snapshot(3, 1, <<>>), Snapshot(3, 2, <<>>), Snapshot(3, 2, <<MkRecord(1)>>)}

\* What the uninitialized record_count can hold when the read of the header
\* failed: zero, a small number, a number no vector can hold.
GarbageCounts == {0, 1, 2 ^ SIZE_T_BITS - 1}

\* std::vector<Record>::max_size()
MaxVectorSize == (2 ^ (SIZE_T_BITS - 1)) \div SIZEOF_RECORD

\* The vector records(record_count) after the read loop: the records the file
\* holds, and Record() where the read failed.
RecordsRead(f, record_count) ==
    [k \in 1..record_count |->
        IF k <= Len(f.records) THEN f.records[k] ELSE [id |-> 0, amount |-> 0]]

\* load_from_file from the construction of the vector on (lines 700-710);
\* the sort of insert_batch puts the records of id 0 first.
LoadFromRead(d, f, relock, record_count) ==
    IF record_count > MaxVectorSize THEN [db |-> d, result |-> "std::bad_alloc"]
    ELSE LockedInsertAll([d EXCEPT !.nodes = <<NewNode(TRUE)>>, !.root = 1,
                                   !.total_records = 0, !.tree_height = 1],
                         SelectSeq(RecordsRead(f, record_count), LAMBDA r : r.id = 0)
                             \o SelectSeq(RecordsRead(f, record_count), LAMBDA r : r.id # 0),
                         TRUE, relock)

\* CustomBPlusDB::load_from_file with the stream as it is: no read is checked;
\* garbage is what record_count holds when its read failed.
LoadFromStreamOp(d, f, relock, garbage) ==
    IF ~f.exists THEN [db |-> d, result |-> "false"]
    ELSE LoadFromRead(d, f, relock, IF f.words >= 3 THEN f.record_count ELSE garbage)

\* The tree as a caller sees it.
TreeOf(d) ==
    [records |-> LeafSeqOf(d), total_records |-> d.total_records, tree_height |-> d.tree_height]

LoadFromBrokenFile ==
    \E f \in BrokenSnapshots, relock \in RelockOutcomes, garbage \in GarbageCounts :
        /\ db' = LoadFromStreamOp(db, f, relock, garbage).db
        /\ ret' = Ret("load_from_file",
                      LoadFromStreamOp(db, f, relock, garbage).result = "true",
                      LoadFromStreamOp(db, f, relock, garbage).result, 0,
                      [file |-> f, before |-> TreeOf(db)])
        /\ inserted' = IF f.exists THEN {} ELSE inserted
        /\ UNCHANGED otherThanTree

\* Bound: the store holds ids 1..MaxLoadId before the load.
MaxLoadId == 3

LoadInsertRecord ==
    \E rec \in Records :
        /\ rec.id <= MaxLoadId
        /\ rec.id \notin StoredIds
        /\ db' = InsertRecordOp(db, rec)
        /\ ret' = Ret("insert_record", TRUE, "", 0, <<>>)
        /\ inserted' = inserted \cup {rec}
        /\ UNCHANGED otherThanTree

NextLoadFailure ==
    \/ CreateDatabase
    \/ LoadInsertRecord
    \/ LoadFromBrokenFile

SpecLoadFailure == Init /\ [][NextLoadFailure]_vars

\* C27: when load_from_file cannot open the file, or the file ends before the
\* header or before the record_count records its header announces,
\* load_from_file returns false and the tree (total_records, tree_height,
\* records) is the same as before the call; it never returns true with records
\* that were not in the file.
C27_LoadFailureKeepsTree ==
    ret.op = "load_from_file" =>
        /\ Truncated(ret.value.file) =>
               /\ ret.path = "false"
               /\ TreeOf(db) = ret.value.before
        /\ ret.path = "true" => Range(LeafSeq) \subseteq Range(ret.value.file.records)

----------------------------------------------------------------------------
(* db_mutex under calls that call another locking operation: specification SpecRelock *)

\* The operations that take db_mutex exclusive, and shared.
ExclusiveOps == {"load_from_file", "insert_record"}
SharedOps == {"byte_offset_sample", "random_start_memory_stride_sample", "signal_based_clt_sample"}

\* The locking operation each of them calls with db_mutex held: insert_record
\* (through insert_batch) at line 710, index_based_sample at line 1480,
\* memory_stride_sample at line 1877, optimized_sequential_sample at line 1816.
InnerCall(op) ==
    IF op = "load_from_file" THEN <<"insert_record">>
    ELSE IF op = "byte_offset_sample" THEN <<"index_based_sample">>
    ELSE IF op = "random_start_memory_stride_sample" THEN <<"memory_stride_sample">>
    ELSE IF op = "signal_based_clt_sample" THEN <<"optimized_sequential_sample">>
    ELSE <<>>

\* What a shared request by a thread that holds db_mutex shared does while a
\* writer waits: it is granted (the lock prefers readers) or it queues behind
\* the writer, which waits for this thread.
SharedRelockOutcomes == {"acquired", "deadlock"}

HoldsExclusive(c) == call[c].op \in ExclusiveOps /\ call[c].pc \in {"held", "thrown", "blocked"}

WriterWaiting == \E c \in Callers : call[c].op \in ExclusiveOps /\ call[c].pc = "acquire"

\* A caller enters an operation; reaches tells whether the call gets as far as
\* the inner call (the snapshot holds records; target_count is not 0; the cache
\* is not mapped; a worker threw).
RelockCall ==
    \E c \in Callers, op \in ExclusiveOps \cup SharedOps, reaches \in BOOLEAN :
        /\ call[c].pc = "idle"
        /\ call' = [call EXCEPT ![c] = [Idle EXCEPT !.op = op, !.pc = "acquire",
                                                   !.todo = IF reaches THEN InnerCall(op)
                                                            ELSE <<>>]]
        /\ UNCHANGED <<treeVars, readers>>
        /\ UNCHANGED otherThanRace

\* std::unique_lock / std::shared_lock at the head of the operation.
AcquireOuter ==
    \E c \in Callers :
        /\ call[c].pc = "acquire"
        /\ \A o \in Callers : ~HoldsExclusive(o)
        /\ call[c].op \in ExclusiveOps => readers = {}
        /\ readers' = IF call[c].op \in SharedOps THEN readers \cup {c} ELSE readers
        /\ call' = [call EXCEPT ![c].pc = "held"]
        /\ UNCHANGED treeVars
        /\ UNCHANGED otherThanRace

\* The inner operation requests db_mutex on the thread that holds it.
InnerRequest ==
    \E c \in Callers, relock \in RelockOutcomes, shared_relock \in SharedRelockOutcomes :
        /\ call[c].pc = "held"
        /\ call[c].todo # <<>>
        /\ call' = [call EXCEPT
                      ![c].pc = IF call[c].op \in ExclusiveOps
                                THEN (IF relock = "system_error" THEN "thrown" ELSE "blocked")
                                ELSE IF WriterWaiting /\ shared_relock = "deadlock"
                                THEN "blocked"
                                ELSE "inner"]
        /\ UNCHANGED <<treeVars, readers>>
        /\ UNCHANGED otherThanRace

\* The inner operation returns and releases its lock.
InnerReturn ==
    \E c \in Callers :
        /\ call[c].pc = "inner"
        /\ call' = [call EXCEPT ![c].pc = "held", ![c].todo = <<>>]
        /\ UNCHANGED <<treeVars, readers>>
        /\ UNCHANGED otherThanRace

\* The operation returns, or the std::system_error leaves it: the lock is released.
OuterLeave ==
    \E c \in Callers :
        /\ \/ call[c].pc = "held" /\ call[c].todo = <<>>
           \/ call[c].pc = "thrown"
        /\ readers' = readers \ {c}
        /\ call' = [call EXCEPT ![c] = Idle]
        /\ UNCHANGED treeVars
        /\ UNCHANGED otherThanRace

NextRelock ==
    \/ RelockCall
    \/ AcquireOuter
    \/ InnerRequest
    \/ InnerReturn
    \/ OuterLeave

SpecRelock == Init /\ [][NextRelock]_vars

\* C28: no public operation of CustomBPlusDB requests the store's
\* readers-writer lock while the same thread already holds it, and every call
\* returns: no caller is inside an inner request for db_mutex, has left its
\* operation by the exception of a refused request, or is blocked for good.
C28_NoRelock ==
    \A c \in Callers :
        /\ ~(call[c].pc = "held" /\ call[c].todo # <<>>)
        /\ call[c].pc \notin {"inner", "thrown", "blocked"}

----------------------------------------------------------------------------
(* The stop flag of clt_validated_dual_pointer_sample: specification SpecCltFair *)

\* The workers are threads of std::async(std::launch::async) and the controller
\* waits on their futures: each of them keeps being scheduled.
SpecCltFair ==
    /\ SpecClt
    /\ WF_vars(CltWorkerHead)
    /\ WF_vars(CltWorkerBody)
    /\ WF_vars(CltWorkerMerge)
    /\ WF_vars(CltReturn)

\* A step of the call taken with should_stop set: worker w appends at most the
\* record whose loop test it had already passed, and does not enter its loop
\* body again.
AfterStop(w) ==
    /\ Len(clt'.workers[w].local_samples) <= Len(clt.workers[w].local_samples) + 1
    /\ clt.workers[w].pc # "body" =>
          /\ clt'.workers[w].local_samples = clt.workers[w].local_samples
          /\ clt'.workers[w].pc # "body"
    /\ clt.workers[w].pc = "body" => clt'.workers[w].pc \in {"body", "head", "merge"}

\* should_stop is not reset and every worker leaves its loop.
StopPropagates ==
    (clt.phase = "running" /\ clt.should_stop) =>
        /\ clt'.should_stop
        /\ \A w \in 1..Len(clt.workers) : AfterStop(w)

\* The call was killed by the division of a worker's step computation.
CltTrapped == ret.op = "clt_validated_dual_pointer_sample" /\ ret.path = "SIGFPE"

\* C29: once a worker of clt_validated_dual_pointer_sample has stored true into
\* should_stop, every other worker appends at most one further record and then
\* leaves its loop, and the flag is not reset during the call; with
\* check_interval >= 2 every worker terminates and the controller's wait on the
\* futures returns.
C29_StopFlagPropagation ==
    /\ [][StopPropagates]_vars
    /\ [](~CltTrapped)
    /\ (clt.phase = "running") ~> (clt.phase = "returned")

----------------------------------------------------------------------------
(* The top-up pass of clt_validated_dual_pointer_sample: specification SpecTopUp *)

\* Bound: the specification loads MaxTopUpRows records of one amount.
MaxTopUpRows == 20

\* The arguments of the calls: no worker, a slow worker alone, a fast and a
\* slow worker.
TopUpPercents == {50, 80}

TopUpThreads == {0, 1, 2}

TopUpIntervals == {3}

\* insert_record of the next odd id (every record of amount 20); the exclusive
\* lock waits for a running call.
TopUpLoad ==
    /\ clt.phase # "running"
    /\ db.total_records < MaxTopUpRows
    /\ db' = InsertRecordOp(db, MkRecord(2 * db.total_records + 1))
    /\ ret' = Ret("insert_record", TRUE, "", 0, <<>>)
    /\ inserted' = inserted \cup {MkRecord(2 * db.total_records + 1)}
    /\ UNCHANGED clt
    /\ UNCHANGED otherThanClt

\* clt_validated_dual_pointer_sample up to the launch of its workers, for a
\* target of 4 or more: the least whose quarter is not 0, and no smaller than
\* the number of workers of either kind.
TopUpBegin ==
    \E p \in TopUpPercents, num_threads \in TopUpThreads, check_interval \in TopUpIntervals :
        /\ clt.phase # "running"
        /\ Target(Len(LeafSeq), p) >= 4
        /\ ret' = Ret("clt_validated_dual_pointer_sample", FALSE, "running", p, <<>>)
        /\ clt' = Launched(p, LeafSeq, Target(Len(LeafSeq), p), check_interval, num_threads)
        /\ UNCHANGED <<db, inserted>>
        /\ UNCHANGED otherThanClt

NextTopUp ==
    \/ TopUpLoad
    \/ TopUpBegin
    \/ CltWorkerHead
    \/ CltWorkerBody
    \/ CltWorkerMerge
    \/ CltReturn

SpecTopUp == Init /\ [][NextTopUp]_vars

\* The number of records the workers of the call have merged.
MergedCount == SumSeq([w \in 1..Len(clt.workers) |-> Len(clt.workers[w].local_samples)])

\* C30: when the workers' merged sample of clt_validated_dual_pointer_sample
\* has fewer than floor(target / 4) records, the final systematic pass runs and
\* the returned sample has at least floor(target / 4) and at most target
\* records; when the merged sample has at least floor(target / 4) records, the
\* pass adds nothing.
C30_TopUpAfterEarlyStop ==
    clt.phase = "returned" =>
        IF MergedCount < clt.base_target_count \div 4
        THEN /\ Len(clt.final_samples) > MergedCount
             /\ Len(clt.final_samples) >= clt.base_target_count \div 4
             /\ Len(clt.final_samples) <= clt.base_target_count
        ELSE Len(clt.final_samples) = MergedCount

\* A call stopped early by a fast worker has returned with the pass taken.
C30_Witness ==
    /\ clt.phase = "returned"
    /\ clt.should_stop
    /\ Len(clt.workers) = 2
    /\ MergedCount < clt.base_target_count \div 4

\* A call whose workers merged enough has returned.
C30_WitnessEnough ==
    /\ clt.phase = "returned"
    /\ Len(clt.workers) > 0
    /\ MergedCount >= clt.base_target_count \div 4
    /\ MergedCount < clt.base_target_count

----------------------------------------------------------------------------
(* signal_based_clt_sample: specification SpecSignal *)

\* What the actions of the signal-based controller leave alone.
otherThanSig == <<snapVars, partVars, aggVars, raceVars, cltVars, grpVars, schedVars>>

\* Bound: the specification loads ids 1..MaxSignalId in order.
MaxSignalId == 8

\* The arguments of the calls.
SignalPercents == {25, 50, 75}

SignalIntervals == {1, 2}

\* insert_record of the next id; the exclusive lock waits for a running call.
SignalLoad ==
    /\ sig.phase # "running"
    /\ db.total_records < MaxSignalId
    /\ db' = InsertRecordOp(db, MkRecord(db.total_records + 1))
    /\ ret' = Ret("insert_record", TRUE, "", 0, <<>>)
    /\ inserted' = inserted \cup {MkRecord(db.total_records + 1)}
    /\ UNCHANGED sig
    /\ UNCHANGED otherThanSig

\* all_records: cached_records_ when it is mapped, the leaf records otherwise.
SignalRecords ==
    IF db.memory_mapped_ /\ db.cached_records_ # <<>> THEN db.cached_records_ ELSE LeafSeq

\* signal_based_clt_sample up to the launch of fast_task and slow_task; it
\* returns {} on an empty store or a zero target.
SignalBegin ==
    \E p \in SignalPercents, check_interval \in SignalIntervals :
        /\ sig.phase # "running"
        /\ IF db.root = NULL \/ SignalRecords = <<>> \/ Target(Len(SignalRecords), p) = 0
           THEN /\ ret' = Ret("signal_based_clt_sample", TRUE, "", p, <<>>)
                /\ sig' = [sig EXCEPT !.phase = "idle"]
           ELSE /\ ret' = Ret("signal_based_clt_sample", FALSE, "running", p, <<>>)
                /\ sig' = [phase |-> "running", p |-> p, all |-> SignalRecords,
                           target_count |-> Target(Len(SignalRecords), p),
                           check_interval |-> check_interval, should_stop |-> FALSE,
                           total_samples |-> 0, fast |-> SignalWorker, slow |-> SignalWorker,
                           pc |-> "wait_fast", fast_samples |-> <<>>, slow_samples |-> <<>>,
                           expired |-> {}, samples |-> <<>>]
        /\ UNCHANGED <<db, inserted>>
        /\ UNCHANGED otherThanSig

\* fast_step = max(2, all_records.size() / (target_count * 2))
FastStep(s) == Max(2, Len(s.all) \div (s.target_count * 2))

\* The loop condition of fast_task.
SignalFastHead ==
    /\ sig.phase = "running"
    /\ sig.fast.pc = "head"
    /\ sig' = [sig EXCEPT !.fast.pc =
                 IF /\ sig.fast.i < Len(sig.all)
                    /\ ~sig.should_stop
                    /\ Len(sig.fast.local_samples) < sig.target_count
                 THEN "body" ELSE "ready"]
    /\ UNCHANGED treeVars
    /\ UNCHANGED otherThanSig

\* Whether fast_task signals once it holds n records: every check_interval
\* records, when total_samples has reached target_count / 2.
FastSignals(s, n) == n % s.check_interval = 0 /\ s.total_samples + 1 >= s.target_count \div 2

\* The loop body of fast_task: push, count, signal check, i += fast_step.
SignalFastBody ==
    /\ sig.phase = "running"
    /\ sig.fast.pc = "body"
    /\ sig' = IF FastSignals(sig, Len(sig.fast.local_samples) + 1)
              THEN [sig EXCEPT !.fast.local_samples = Append(@, sig.all[sig.fast.i + 1]),
                               !.total_samples = @ + 1,
                               !.should_stop = TRUE,
                               !.fast.pc = "ready"]
              ELSE [sig EXCEPT !.fast.local_samples = Append(@, sig.all[sig.fast.i + 1]),
                               !.total_samples = @ + 1,
                               !.fast.i = @ + FastStep(sig),
                               !.fast.pc = "head"]
    /\ UNCHANGED treeVars
    /\ UNCHANGED otherThanSig

\* The loop condition of slow_task.
SignalSlowHead ==
    /\ sig.phase = "running"
    /\ sig.slow.pc = "head"
    /\ sig' = [sig EXCEPT !.slow.pc =
                 IF /\ sig.slow.i < Len(sig.all)
                    /\ ~sig.should_stop
                    /\ Len(sig.slow.local_samples) < sig.target_count \div 4
                 THEN "body" ELSE "ready"]
    /\ UNCHANGED treeVars
    /\ UNCHANGED otherThanSig

\* The loop body of slow_task: push, the short sleep, i += 1.
SignalSlowBody ==
    /\ sig.phase = "running"
    /\ sig.slow.pc = "body"
    /\ sig' = [sig EXCEPT !.slow.local_samples = Append(@, sig.all[sig.slow.i + 1]),
                          !.slow.i = @ + 1,
                          !.slow.pc = "head"]
    /\ UNCHANGED treeVars
    /\ UNCHANGED otherThanSig

\* fast_task.wait_for(500 ms): ready, and get(); or expired, and should_stop is
\* stored.  expired keeps, per worker, the records it held when its wait ran out.
SignalWaitFast ==
    /\ sig.phase = "running"
    /\ sig.pc = "wait_fast"
    /\ sig' = IF sig.fast.pc = "ready"
              THEN [sig EXCEPT !.fast_samples = sig.fast.local_samples, !.pc = "wait_slow"]
              ELSE [sig EXCEPT !.should_stop = TRUE, !.pc = "wait_fast_again",
                               !.expired = @ \cup {[worker |-> "fast",
                                                    held |-> sig.fast.local_samples]}]
    /\ UNCHANGED treeVars
    /\ UNCHANGED otherThanSig

\* fast_task.wait_for(100 ms) after the expiry: ready, and get(); or nothing.
SignalWaitFastAgain ==
    /\ sig.phase = "running"
    /\ sig.pc = "wait_fast_again"
    /\ sig' = IF sig.fast.pc = "ready"
              THEN [sig EXCEPT !.fast_samples = sig.fast.local_samples, !.pc = "wait_slow"]
              ELSE [sig EXCEPT !.pc = "wait_slow"]
    /\ UNCHANGED treeVars
    /\ UNCHANGED otherThanSig

\* slow_task.wait_for(100 ms): ready, and get(); or expired, and should_stop is
\* stored.
SignalWaitSlow ==
    /\ sig.phase = "running"
    /\ sig.pc = "wait_slow"
    /\ sig' = IF sig.slow.pc = "ready"
              THEN [sig EXCEPT !.slow_samples = sig.slow.local_samples, !.pc = "combine"]
              ELSE [sig EXCEPT !.should_stop = TRUE, !.pc = "combine",
                               !.expired = @ \cup {[worker |-> "slow",
                                                    held |-> sig.slow.local_samples]}]
    /\ UNCHANGED treeVars
    /\ UNCHANGED otherThanSig

\* samples = fast_samples followed by slow_samples, trimmed to target_count.
Combined(s) == Take(s.fast_samples \o s.slow_samples, s.target_count)

\* The combination of the results and the return; the destructors of the two
\* futures wait for the workers.
SignalReturn ==
    /\ sig.phase = "running"
    /\ sig.pc = "combine"
    /\ sig.fast.pc = "ready"
    /\ sig.slow.pc = "ready"
    /\ sig' = [sig EXCEPT !.phase = "returned", !.samples = Combined(sig)]
    /\ ret' = Ret("signal_based_clt_sample", TRUE, "", sig.p, Combined(sig))
    /\ UNCHANGED <<db, inserted>>
    /\ UNCHANGED otherThanSig

NextSignal ==
    \/ SignalLoad
    \/ SignalBegin
    \/ SignalFastHead
    \/ SignalFastBody
    \/ SignalSlowHead
    \/ SignalSlowBody
    \/ SignalWaitFast
    \/ SignalWaitFastAgain
    \/ SignalWaitSlow
    \/ SignalReturn

SpecSignal == Init /\ [][NextSignal]_vars

\* The two workers are threads of std::async(std::launch::async), the waits of
\* the controller are bounded: each of them keeps being scheduled.
SpecSignalFair ==
    /\ SpecSignal
    /\ WF_vars(SignalFastHead)
    /\ WF_vars(SignalFastBody)
    /\ WF_vars(SignalSlowHead)
    /\ WF_vars(SignalSlowBody)
    /\ WF_vars(SignalWaitFast)
    /\ WF_vars(SignalWaitFastAgain)
    /\ WF_vars(SignalWaitSlow)
    /\ WF_vars(SignalReturn)

\* An expiry of a bounded wait stores should_stop.
ExpirySetsStop ==
    (sig.phase = "running" /\ sig'.phase = "running" /\ sig'.expired # sig.expired) =>
        sig'.should_stop

\* The records every worker held when its wait expired are in the returned sample.
PartialResultsKept ==
    sig.phase = "returned" => \A e \in sig.expired : Range(e.held) \subseteq Range(sig.samples)

\* C31: whenever the bounded wait of signal_based_clt_sample on the fast or on
\* the slow worker expires, the controller sets the stop flag, the worker then
\* terminates, and the records the worker had collected up to that point are
\* part of the returned sample; the call always returns.
C31_TimeoutKeepsPartialResults ==
    /\ [][ExpirySetsStop]_vars
    /\ [](PartialResultsKept)
    /\ (sig.phase = "running") ~> (sig.phase = "returned")

----------------------------------------------------------------------------
(* The merge into final_samples under samples_mutex: specification SpecMerge *)

\* No worker of the call c holds samples_mutex.
SamplesMutexIgnored(c) == TRUE

\* std::lock_guard<std::mutex> lock(samples_mutex) can be taken: no worker of
\* the call c holds samples_mutex.
SamplesMutexFree(c) == \A w \in 1..Len(c.workers) : c.workers[w].pc # "locked"

\* A worker that has left its loop takes samples_mutex.
MergeLock ==
    \E w \in 1..Len(clt.workers) :
        /\ clt.phase = "running"
        /\ clt.workers[w].pc = "merge"
        /\ SamplesMutexFree(clt)
        /\ clt' = [clt EXCEPT !.workers[w].pc = "locked"]
        /\ UNCHANGED treeVars
        /\ UNCHANGED otherThanClt

\* The worker that holds samples_mutex appends its records to final_samples;
\* the lock_guard releases the mutex as the worker ends.
MergeInsert ==
    \E w \in 1..Len(clt.workers) :
        /\ clt.phase = "running"
        /\ clt.workers[w].pc = "locked"
        /\ clt' = MergeStep(clt, w)
        /\ UNCHANGED treeVars
        /\ UNCHANGED otherThanClt

NextMerge ==
    \/ CltLoad
    \/ CltBegin
    \/ CltWorkerHead
    \/ CltWorkerBody
    \/ MergeLock
    \/ MergeInsert
    \/ CltReturn

SpecMerge == Init /\ [][NextMerge]_vars

\* How many times r occurs in the sequence s.
Occurrences(s, r) == Cardinality({k \in 1..Len(s) : s[k] = r})

\* Every future of the call is ready: the point where the controller reads
\* final_samples.
AllWorkersDone ==
    clt.phase = "running" /\ \A w \in 1..Len(clt.workers) : clt.workers[w].pc = "done"

\* final_samples holds each record as often as the workers' local samples
\* hold it together.
MergedOnce ==
    /\ Len(clt.final_samples) = MergedCount
    /\ \A r \in Range(clt.all) :
          Occurrences(clt.final_samples, r) =
             SumSeq([w \in 1..Len(clt.workers) |-> Occurrences(clt.workers[w].local_samples, r)])

\* C32: in clt_validated_dual_pointer_sample the appends to final_samples are
\* mutually exclusive (under samples_mutex), the controller reads final_samples
\* only after every worker has completed, and at that point final_samples is
\* the multiset union of the workers' local samples, each appearing once.
C32_MergeDiscipline ==
    /\ Cardinality({w \in 1..Len(clt.workers) : clt.workers[w].pc = "locked"}) <= 1
    /\ clt.phase = "returned" => \A w \in 1..Len(clt.workers) : clt.workers[w].pc = "done"
    /\ AllWorkersDone => MergedOnce

\* Three workers have merged records and the controller is about to read.
C32_Witness ==
    /\ AllWorkersDone
    /\ Len(clt.workers) = 3
    /\ \A w \in 1..Len(clt.workers) : clt.workers[w].local_samples # <<>>

\* A worker waits for samples_mutex while another holds it.
C32_WitnessContention ==
    \E w1, w2 \in 1..Len(clt.workers) :
        clt.workers[w1].pc = "locked" /\ clt.workers[w2].pc = "merge"

----------------------------------------------------------------------------
(* The workers' random start: specification SpecDraw *)

\* Bound: the specification loads ids 1..MaxDrawId in order.
MaxDrawId == 8

\* The two functions whose workers draw a random start, and their arguments.
DrawFunctions == {"multithreaded_memory_stride_sample", "fast_aggregated_memory_stride_sum"}

DrawPercents == {50, 100}

DrawThreads == {1, 2}

\* insert_record of the next id; the exclusive lock waits for a running call.
DrawLoad ==
    /\ agg.phase # "running"
    /\ db.total_records < MaxDrawId
    /\ db' = InsertRecordOp(db, MkRecord(db.total_records + 1))
    /\ ret' = Ret("insert_record", TRUE, "", 0, <<>>)
    /\ inserted' = inserted \cup {MkRecord(db.total_records + 1)}
    /\ UNCHANGED agg
    /\ UNCHANGED otherThanAgg

\* A worker as std::async launches it: nothing computed yet.
DrawWorker ==
    [pc |-> "region", thread_start |-> 0, thread_samples |-> <<>>, thread_sum |-> 0,
     thread_sample_count |-> 0, current_sum |-> 0]

\* Either function up to the launch of its workers: the cache is filled if need
\* be, gen is seeded, and on an empty cache the call returns.
DrawBegin ==
    \E fn \in DrawFunctions, p \in DrawPercents, num_threads \in DrawThreads :
        /\ agg.phase # "running"
        /\ db.root # NULL
        /\ db' = EnsureCache(db)
        /\ IF db'.cached_records_ = <<>>
           THEN /\ ret' = Ret(fn, TRUE, "", p, IF fn = "fast_aggregated_memory_stride_sum"
                                               THEN 0 ELSE <<>>)
                /\ agg' = [agg EXCEPT !.phase = "idle"]
           ELSE /\ ret' = Ret(fn, FALSE, "running", p, <<>>)
                /\ agg' = [phase |-> "running", fn |-> fn, p |-> p,
                           num_threads |-> num_threads, total_sum |-> 0,
                           total_sample_count |-> 0, retried |-> FALSE,
                           workers |-> [w \in 1..num_threads |-> DrawWorker]]
        /\ UNCHANGED inserted
        /\ UNCHANGED otherThanAgg

\* The region of worker w (1-based) of the running call.
DrawRegion(w) == StrideRegion(w - 1, Len(db.cached_records_), agg.num_threads)

\* target_samples of worker w.
DrawTarget(w) == RegionTarget(DrawRegion(w).end - DrawRegion(w).start, agg.p, agg.num_threads)

\* A worker computes its region and its target; it returns when the region is
\* empty or the target is 0.
WorkerRegion ==
    \E w \in 1..Len(agg.workers) :
        /\ agg.phase = "running"
        /\ agg.workers[w].pc = "region"
        /\ agg' = [agg EXCEPT !.workers[w].pc =
                      IF DrawRegion(w).end <= DrawRegion(w).start \/ DrawTarget(w) = 0
                      THEN "done" ELSE "draw"]
        /\ UNCHANGED treeVars
        /\ UNCHANGED otherThanAgg

\* thread_start = random_start_dist(gen): gen is the generator of the
\* enclosing call, captured by reference; the draw advances its state.
WorkerDraw ==
    \E w \in 1..Len(agg.workers), pick \in 0..MaxPick :
        /\ agg.phase = "running"
        /\ agg.workers[w].pc = "draw"
        /\ agg' = [agg EXCEPT
                     !.workers[w].thread_start =
                        DrawRegion(w).start
                          + Min(pick, MaxStartOffset(DrawRegion(w).end - DrawRegion(w).start)),
                     !.workers[w].pc = "sample"]
        /\ UNCHANGED treeVars
        /\ UNCHANGED otherThanAgg

\* The records the stride loop of worker w visits.
DrawSamples(w) ==
    RegionWalk(db.cached_records_, DrawRegion(w), DrawTarget(w), agg.workers[w].thread_start)

\* The stride loop: the records go to thread_samples, or their amounts to
\* thread_sum; the sampler's worker then returns, the aggregate's goes on to
\* the shared accumulators.
WorkerSample ==
    \E w \in 1..Len(agg.workers) :
        /\ agg.phase = "running"
        /\ agg.workers[w].pc = "sample"
        /\ agg' = [agg EXCEPT
                     !.workers[w].thread_samples = DrawSamples(w),
                     !.workers[w].thread_sum = SumSeq(Amounts(DrawSamples(w))),
                     !.workers[w].thread_sample_count = Len(DrawSamples(w)),
                     !.workers[w].pc = IF agg.fn = "fast_aggregated_memory_stride_sum"
                                       THEN "load" ELSE "done"]
        /\ UNCHANGED treeVars
        /\ UNCHANGED otherThanAgg

\* Every future has been waited for: the call returns.
DrawReturn ==
    /\ agg.phase = "running"
    /\ \A w \in 1..Len(agg.workers) : agg.workers[w].pc = "done"
    /\ agg' = [agg EXCEPT !.phase = "returned"]
    /\ ret' = Ret(agg.fn, TRUE, "", agg.p,
                  IF agg.fn = "fast_aggregated_memory_stride_sum" THEN AggResult(agg)
                  ELSE Flatten([w \in 1..Len(agg.workers) |-> agg.workers[w].thread_samples]))
    /\ UNCHANGED <<db, inserted>>
    /\ UNCHANGED otherThanAgg

NextDraw ==
    \/ DrawLoad
    \/ DrawBegin
    \/ WorkerRegion
    \/ WorkerDraw
    \/ WorkerSample
    \/ WorkerLoad
    \/ WorkerCas
    \/ WorkerFetchAdd
    \/ DrawReturn

SpecDraw == Init /\ [][NextDraw]_vars

\* The accesses to non-atomic objects the next step of worker w performs:
\* total_sum and total_sample_count are atomics.
WorkerAccesses(w) ==
    IF agg.workers[w].pc = "region" THEN {Access(<<"cached_records_">>, FALSE)}
    ELSE IF agg.workers[w].pc = "draw" THEN {Access(<<"gen">>, TRUE)}
    ELSE IF agg.workers[w].pc = "sample"
    THEN {Access(<<"cached_records_">>, FALSE), Access(<<"thread_samples", w>>, TRUE)}
    ELSE {}

\* C33: the workers of multithreaded_memory_stride_sample and of
\* fast_aggregated_memory_stride_sum write only to their own local buffers and
\* to shared atomics: no two workers access the same non-atomic object with at
\* least one write; in particular the random-start generator is not one object
\* mutated by several workers concurrently.
C33_WorkersShareNoObject ==
    agg.phase = "running" =>
        \A w1, w2 \in 1..Len(agg.workers) :
            w1 # w2 => \A a \in WorkerAccesses(w1), b \in WorkerAccesses(w2) : ~Conflict(a, b)

----------------------------------------------------------------------------
(* The shape of the nodes: specification Spec *)

\* Node n holds key_count keys, fewer than MAX_KEYS.
KeysWithinBounds(n) == n.key_count >= 0 /\ n.key_count < MAX_KEYS /\ Len(n.keys) = n.key_count

\* Leaf n holds one record per key, records[i].id == keys[i].
LeafShape(n) ==
    /\ Len(n.records) = n.key_count
    /\ \A i \in 1..Len(n.records) : i <= Len(n.keys) /\ n.records[i].id = n.keys[i]

\* Internal node n holds key_count + 1 children, none of them null.
InternalShape(n) ==
    /\ Len(n.children) = n.key_count + 1
    /\ \A c \in 1..Len(n.children) : n.children[c] # NULL

\* C34: after every insert_record returns, every node has 0 <= key_count <
\* MAX_KEYS and keys.size() == key_count; every leaf has records.size() ==
\* key_count with records[i].id == keys[i]; every internal node has exactly
\* key_count + 1 non-null children; and no node has zero keys other than the
\* empty root leaf of an empty tree.
C34_NodeShape ==
    \A nid \in SubtreeNodes(db.nodes, db.root) :
        /\ KeysWithinBounds(db.nodes[nid])
        /\ IF db.nodes[nid].is_leaf THEN LeafShape(db.nodes[nid])
           ELSE InternalShape(db.nodes[nid])
        /\ db.nodes[nid].key_count = 0 =>
              (nid = db.root /\ db.nodes[nid].is_leaf /\ db.total_records = 0)

\* The tree has grown to three levels: leaves and an internal node have split.
C34_Witness ==
    /\ ret.op \in {"insert_record", "insert_batch"}
    /\ db.tree_height = 3
    /\ \E nid \in SubtreeNodes(db.nodes, db.root) :
          nid # db.root /\ ~db.nodes[nid].is_leaf

----------------------------------------------------------------------------
(* C35: tree_height and the shape of the tree *)

\* The numbers of nodes on the paths from node nid down to the leaves under it.
RECURSIVE PathLengths(_, _)
PathLengths(heap, nid) ==
    IF heap[nid].is_leaf THEN {1}
    ELSE UNION {{l + 1 : l \in PathLengths(heap, heap[nid].children[i])} :
                  i \in 1..Len(heap[nid].children)}

\* CustomBPlusDB::get_tree_height.
GetTreeHeight(d) == d.tree_height

\* Every root-to-leaf path holds get_tree_height() nodes.
HeightIsDepth == PathLengths(db.nodes, db.root) = {GetTreeHeight(db)}

\* An insert_record step raises tree_height by one when it replaces the root
\* and keeps it otherwise; create_database and load_from_file of an empty
\* snapshot leave it at 1.
HeightStep ==
    /\ ret'.op = "insert_record" =>
          GetTreeHeight(db') = GetTreeHeight(db) + (IF db'.root # db.root THEN 1 ELSE 0)
    /\ ret'.op = "create_database" => GetTreeHeight(db') = 1
    /\ (ret'.op = "load_from_file" /\ db'.total_records = 0 /\ db' # db) =>
          GetTreeHeight(db') = 1

\* C35: in every state reachable through create_database, insert_record,
\* insert_batch and load_from_file all leaves lie at the same depth and
\* get_tree_height() is the number of nodes on every root-to-leaf path; the
\* height is 1 for the constructed, created or emptied tree, grows by exactly
\* one at each root split and changes at no other insert.
C35_HeightTracksStructure ==
    /\ GetTreeHeight(FreshDB) = 1
    /\ [](HeightIsDepth)
    /\ [][HeightStep]_vars

\* Two root splits have happened: the last insert_record left three levels.
C35_Witness ==
    /\ ret.op = "insert_record"
    /\ GetTreeHeight(db) = 3
    /\ PathLengths(db.nodes, db.root) = {3}

----------------------------------------------------------------------------
(* C36: the WHERE bounds of execute_sum_query: specification SpecWhere *)

\* Bound: the specification loads ids 1..MaxWhereId in order.
MaxWhereId == 4

\* The amounts of those records, by id: one on each side of every bound of
\* WhereBounds, and one above the default upper bound.
WhereAmountOf(i) == IF i % 4 = 1 THEN 10
                    ELSE IF i % 4 = 2 THEN 20
                    ELSE IF i % 4 = 3 THEN 30
                    ELSE DEFAULT_UPPER_BOUND + 1

\* The numbers written in the conditions.
WhereBounds == {10, 20}

\* The query texts: no WHERE, and one condition of each form.
WhereQueries ==
    {SelectSum}
    \cup {SelectSumWhere(Greater(x)) : x \in WhereBounds}
    \cup {SelectSumWhere(Between(x, y)) : x, y \in WhereBounds}
    \cup {SelectSumWhere(InRange(x, y)) : x, y \in WhereBounds}

WherePercents == {50, 100}

WhereThreads == {1, 2}

\* CustomApproximateScheduler::insert_record of the next id.
WhereLoad ==
    /\ db.total_records < MaxWhereId
    /\ db' = InsertRecordOp(db, [id |-> db.total_records + 1,
                                 amount |-> WhereAmountOf(db.total_records + 1)])
    /\ ret' = Ret("insert_record", TRUE, "", 0, <<>>)
    /\ inserted' = inserted \cup {[id |-> db.total_records + 1,
                                   amount |-> WhereAmountOf(db.total_records + 1)]}
    /\ UNCHANGED otherThanTree

\* What the call reports, with the text it was called with.
WithQuery(r, query) ==
    [r EXCEPT !.value = [result |-> r.value.result, invoked |-> r.value.invoked,
                         sampled_records |-> r.value.sampled_records,
                         query |-> query]]

\* execute_sum_query(query, p, num_threads)
WhereSumQuery ==
    \E query \in WhereQueries, p \in WherePercents, num_threads \in WhereThreads,
       div0 \in DivByZeroOutcomes :
        \E sampled_records \in SampleRecordsOutcomes(db, p) :
            /\ ret' = WithQuery(ExecuteSumQueryOp(query, sampled_records, p,
                                                  num_threads, div0), query)
            /\ UNCHANGED <<db, inserted>>
            /\ UNCHANGED otherThanTree

NextWhere ==
    \/ WhereLoad
    \/ WhereSumQuery

SpecWhere == Init /\ [][NextWhere]_vars

\* The condition of a query as it is written, on an amount.
AsWritten(query, amount) ==
    \/ query = SelectSum
    \/ \E x \in WhereBounds : query = SelectSumWhere(Greater(x)) /\ amount > x
    \/ \E x, y \in WhereBounds :
          /\ query \in {SelectSumWhere(Between(x, y)), SelectSumWhere(InRange(x, y))}
          /\ x <= amount /\ amount <= y

\* The sum over the sampled records that satisfy the written condition,
\* scaled by 100 / p.
WrittenSum(r) ==
    Frac(100 * SumSeq(Amounts(SelectSeq(r.value.sampled_records,
                                        LAMBDA rec : AsWritten(r.value.query, rec.amount)))),
         r.p)

\* C36: execute_sum_query applies the WHERE bounds as written: `amount > x`
\* aggregates exactly the sampled records with amount strictly greater than x,
\* with no upper bound; `amount BETWEEN x AND y` and `amount >= x AND amount
\* <= y` exactly those with x <= amount <= y; a query without WHERE all the
\* sampled records.
C36_WhereAsWritten ==
    (ret.op = "execute_sum_query" /\ ret.path = "returned") =>
        ret.value.result.value = WrittenSum(ret)

----------------------------------------------------------------------------
(* C37: avg_amount beside insert_record: specification SpecAvg *)

\* Bound: the specification loads ids 1..MaxAvgId in order.
MaxAvgId == 4

\* Bound: the number of avg_amount calls a caller thread makes.
MaxAvgCalls == 2

\* insert_record of the next id by the writer thread: the exclusive lock is
\* granted when no reader holds the shared lock, and total_records++ is done
\* under it.
AvgLoad ==
    /\ readers = {}
    /\ db.total_records < MaxAvgId
    /\ db' = InsertRecordOp(db, MkRecord(db.total_records + 1))
    /\ ret' = Ret("insert_record", TRUE, "", 0, <<>>)
    /\ inserted' = inserted \cup {MkRecord(db.total_records + 1)}
    /\ UNCHANGED raceVars
    /\ UNCHANGED otherThanRace

\* avg_amount enters sum_amount: the shared lock is taken.
AvgSumLock ==
    \E c \in Callers :
        /\ call[c].pc = "idle"
        /\ call[c].calls < MaxAvgCalls
        /\ readers' = readers \cup {c}
        /\ call' = [call EXCEPT ![c] = [@ EXCEPT !.op = "avg_amount", !.pc = "sum",
                                                  !.calls = @ + 1]]
        /\ UNCHANGED treeVars
        /\ UNCHANGED otherThanRace

\* sum_amount adds the amounts of collect_all_records() and returns: the
\* shared lock is released.
AvgSumReturn ==
    \E c \in Callers :
        /\ call[c].pc = "sum"
        /\ readers' = readers \ {c}
        /\ call' = [call EXCEPT ![c] = [@ EXCEPT !.pc = "count",
                                                  !.acc = SumAmountOp(db).num]]
        /\ UNCHANGED treeVars
        /\ UNCHANGED otherThanRace

\* count = get_total_records(), an atomic load with no lock held, and the
\* return of count > 0 ? sum / count : 0.0.
AvgCountReturn ==
    \E c \in Callers :
        /\ call[c].pc = "count"
        /\ ret' = Ret("avg_amount", TRUE, "returned", 0,
                      IF db.total_records > 0 THEN Frac(call[c].acc, db.total_records)
                      ELSE Zero)
        /\ call' = [call EXCEPT ![c] = [@ EXCEPT !.pc = "idle", !.acc = 0]]
        /\ UNCHANGED <<db, inserted, readers>>
        /\ UNCHANGED otherThanRace

NextAvg ==
    \/ AvgLoad
    \/ AvgSumLock
    \/ AvgSumReturn
    \/ AvgCountReturn

SpecAvg == Init /\ [][NextAvg]_vars

\* The average of the amounts of the tree when it held ids 1..n: the sum and
\* the count of one state.
StateAverage(n) ==
    IF n = 0 THEN Zero ELSE Frac(SumSeq([i \in 1..n |-> AmountOf(i)]), n)

\* C37: every value avg_amount returns while insert_record calls run is the
\* sum of the amounts of one state of the tree divided by the number of
\* records of that same state.
C37_AvgFromOneState ==
    (ret.op = "avg_amount") =>
        \E n \in 0..db.total_records : ret.value = StateAverage(n)

----------------------------------------------------------------------------
(* C38: the integer divisors of the pointer samplers: specification SpecDivisors *)

\* Bound: the specification loads ids 1..MaxDivId in order.
MaxDivId == 12

\* The arguments of the calls, all within 0 < p < 100, num_threads >= 1,
\* check_interval >= 1 and skip_factor >= 1.
DivPercents == {10, 25, 50, 75}

DivThreads == {1, 2, 3}

DivIntervals == {1, 2, 3}

DivSkipFactors == {1, 2}

\* The divisors a call evaluates, in program order, up to the first that is
\* zero: what follows a division by zero is not defined.
RECURSIVE UpToZero(_)
UpToZero(divisors) ==
    IF divisors = <<>> THEN <<>>
    ELSE IF Head(divisors) = 0 THEN <<0>>
    ELSE <<Head(divisors)>> \o UpToZero(Tail(divisors))

\* dual_pointer_sample after the early returns: target_count / 3,
\* all_records.size() / fast_target, all_records.size() / slow_target,
\* fast_step / 2 (the int targets converted to size_t by the division).
DualDivisors(target_count) ==
    UpToZero(<<3, ToSizeT(target_count \div 3),
               ToSizeT(target_count - target_count \div 3), 2>>)

\* CustomBPlusDB::dual_pointer_sample
DualPointerDivisors(n, target_count) ==
    IF n = 0 \/ target_count = 0 THEN <<>> ELSE DualDivisors(target_count)

\* BTreePointerTraversal::dual_pointer_sample on a non-null root: no early
\* return on a zero target.
TraversalDualDivisors(n, target_count) == DualDivisors(target_count)

\* A fast worker of clt_validated_dual_pointer_sample, launched as w, up to
\* its first check: the two bounds of its range, base_target_count /
\* fast_threads and the range divided by it, then local_check_count %
\* check_interval when the loop is entered.
FastWorkerDivisors(w, base_target_count, fast_threads, check_interval) ==
    UpToZero(<<fast_threads, fast_threads, fast_threads,
               base_target_count \div fast_threads>>
             \o (IF w.i < w.thread_end THEN <<check_interval>> ELSE <<>>))

\* A slow worker up to its first check: as the fast worker, then slow_step / 2,
\* and with the loop entered check_interval / 2 and local_check_count %
\* (check_interval / 2).
SlowWorkerDivisors(w, base_target_count, slow_threads, check_interval) ==
    UpToZero(<<slow_threads, slow_threads, slow_threads,
               base_target_count \div slow_threads, 2>>
             \o (IF w.i < w.thread_end THEN <<2, check_interval \div 2>> ELSE <<>>))

\* clt_validated_dual_pointer_sample: nothing on an empty store or a zero
\* target, else num_threads / 2 and the divisors of every worker.
CltDivisors(total_records, base_target_count, num_threads, check_interval) ==
    IF total_records = 0 \/ base_target_count = 0 THEN <<>>
    ELSE <<2>>
         \o Flatten([t \in 1..(num_threads \div 2) |->
                FastWorkerDivisors(FastWorker(t - 1, total_records, base_target_count,
                                              num_threads \div 2),
                                   base_target_count, num_threads \div 2, check_interval)])
         \o Flatten([t \in 1..(num_threads - num_threads \div 2) |->
                SlowWorkerDivisors(SlowWorker(t - 1, total_records, base_target_count,
                                              num_threads - num_threads \div 2),
                                   base_target_count, num_threads - num_threads \div 2,
                                   check_interval)])

\* parallel_pointer_sample: target_count / num_threads, then in every worker
\* all_records.size() / num_threads and all_records.size() / target_count.
ParallelPointerDivisors(n, target_count, num_threads) ==
    IF n = 0 \/ target_count = 0 THEN <<>>
    ELSE UpToZero(<<num_threads>>
                  \o Flatten([t \in 1..num_threads |->
                                 <<num_threads, ToSizeT(target_count)>>]))

\* node_skip_sample (0 < p < 100): node_counter % skip_factor at every leaf
\* the walk visits, none with a zero target.
NodeSkipDivisors(d, p, skip_factor) ==
    IF Target(Len(LeafSeqOf(d)), p) = 0 THEN <<>>
    ELSE UpToZero([k \in 1..Len(LeafNodes(d.nodes, d.root)) |-> skip_factor])

\* insert_record of the next id.
DivLoad ==
    /\ db.total_records < MaxDivId
    /\ db' = InsertRecordOp(db, MkRecord(db.total_records + 1))
    /\ ret' = Ret("insert_record", TRUE, "", 0, <<>>)
    /\ inserted' = inserted \cup {MkRecord(db.total_records + 1)}
    /\ UNCHANGED otherThanTree

\* What a call reports: the size of the store, the target and the divisors
\* it evaluated; the call returned when none of them was zero.
Divided(op, p, divisors) ==
    ret' = Ret(op, 0 \notin Range(divisors),
               IF 0 \in Range(divisors) THEN "divide_by_zero" ELSE "",
               p, [n |-> Len(LeafSeq), target |-> Target(Len(LeafSeq), p),
                   divisors |-> divisors])

DivDualPointerSample ==
    \E p \in DivPercents :
        /\ Divided("dual_pointer_sample", p,
                   DualPointerDivisors(Len(LeafSeq), Target(Len(LeafSeq), p)))
        /\ UNCHANGED <<db, inserted>>
        /\ UNCHANGED otherThanTree

DivTraversalDualPointerSample ==
    \E p \in DivPercents :
        /\ Divided("BTreePointerTraversal::dual_pointer_sample", p,
                   TraversalDualDivisors(Len(LeafSeq), Target(Len(LeafSeq), p)))
        /\ UNCHANGED <<db, inserted>>
        /\ UNCHANGED otherThanTree

DivCltSample ==
    \E p \in DivPercents, num_threads \in DivThreads, check_interval \in DivIntervals :
        /\ Divided("clt_validated_dual_pointer_sample", p,
                   CltDivisors(Len(LeafSeq), Target(Len(LeafSeq), p), num_threads,
                               check_interval))
        /\ UNCHANGED <<db, inserted>>
        /\ UNCHANGED otherThanTree

DivParallelPointerSample ==
    \E p \in DivPercents, num_threads \in DivThreads :
        /\ Divided("parallel_pointer_sample", p,
                   ParallelPointerDivisors(Len(LeafSeq), Target(Len(LeafSeq), p),
                                           num_threads))
        /\ UNCHANGED <<db, inserted>>
        /\ UNCHANGED otherThanTree

DivNodeSkipSample ==
    \E p \in DivPercents, skip_factor \in DivSkipFactors :
        /\ Divided("node_skip_sample", p, NodeSkipDivisors(db, p, skip_factor))
        /\ UNCHANGED <<db, inserted>>
        /\ UNCHANGED otherThanTree

NextDivisors ==
    \/ DivLoad
    \/ DivDualPointerSample
    \/ DivTraversalDualPointerSample
    \/ DivCltSample
    \/ DivParallelPointerSample
    \/ DivNodeSkipSample

SpecDivisors == Init /\ [][NextDivisors]_vars

\* The pointer samplers of the claim.
PointerSamplers ==
    {"dual_pointer_sample", "BTreePointerTraversal::dual_pointer_sample",
     "clt_validated_dual_pointer_sample", "parallel_pointer_sample", "node_skip_sample"}

\* C38: for N >= 1 and 0 < p < 100 with target = floor(N * p / 100) >= 1,
\* num_threads >= 1, check_interval >= 1 and skip_factor >= 1, no pointer
\* sampler evaluates an integer division or modulo whose divisor is 0.
C38_NoZeroDivisor ==
    (ret.op \in PointerSamplers /\ ret.value.n >= 1 /\ ret.value.target >= 1) =>
        0 \notin Range(ret.value.divisors)

----------------------------------------------------------------------------
(* C39: the selection rate and the scale factor of execute_query:
   specification SpecRowid *)

\* Bound: the table holds up to MaxRowidRows rows, rowids 1..n.
MaxRowidRows == 12

\* The values of sample_percent, within 1..99: divisors of 100 and others.
RowidPercents == {10, 20, 25, 30, 40, 50, 60, 75}

\* The amount every row of the table holds.
RowidAmounts == {10, 20}

\* A table of n rows that all hold the amount c.
ConstantTable(n, c) == [i \in 1..n |-> c]

\* execute_query(SELECT agg(amount) FROM t, db_path, sample_percent) on the
\* table amounts.
RowidQuery(agg_upper, amounts, sample_percent) ==
    ret' = Ret("execute_query",
               ExecuteQueryOp(agg_upper, amounts, sample_percent).path = "returned",
               ExecuteQueryOp(agg_upper, amounts, sample_percent).path, sample_percent,
               [agg |-> agg_upper, amounts |-> amounts,
                result |-> ExecuteQueryOp(agg_upper, amounts, sample_percent).value])

RowidSum ==
    \E n \in 0..MaxRowidRows, c \in RowidAmounts, sample_percent \in RowidPercents :
        /\ RowidQuery("SUM", ConstantTable(n, c), sample_percent)
        /\ UNCHANGED <<db, inserted>>
        /\ UNCHANGED otherThanTree

RowidCount ==
    \E n \in 0..MaxRowidRows, c \in RowidAmounts, sample_percent \in RowidPercents :
        /\ RowidQuery("COUNT", ConstantTable(n, c), sample_percent)
        /\ UNCHANGED <<db, inserted>>
        /\ UNCHANGED otherThanTree

RowidAvg ==
    \E n \in 0..MaxRowidRows, c \in RowidAmounts, sample_percent \in RowidPercents :
        /\ RowidQuery("AVG", ConstantTable(n, c), sample_percent)
        /\ UNCHANGED <<db, inserted>>
        /\ UNCHANGED otherThanTree

NextRowid ==
    \/ RowidSum
    \/ RowidCount
    \/ RowidAvg

SpecRowid == Init /\ [][NextRowid]_vars

\* C39: for sample_percent p in 1..99 the fraction of rows `rowid % step = 0`
\* selects, step = 100 / p, is the inverse of the factor 100.0 / p: on a table
\* of N >= 1 rows, N a multiple of step, all amounts equal to c, execute_query
\* returns exactly N * c for SUM and N for COUNT.
C39_RateMatchesScale ==
    (ret.op = "execute_query" /\ ret.p \in 1..99 /\ ret.value.agg \in {"SUM", "COUNT"}
        /\ Len(ret.value.amounts) >= 1
        /\ Len(ret.value.amounts) % SampleStep(ret.p) = 0) =>
        /\ ret.path = "returned"
        /\ ret.value.result =
              (IF ret.value.agg = "SUM" THEN Frac(SumSeq(ret.value.amounts), 1)
               ELSE Frac(Len(ret.value.amounts), 1))

====
